---- MODULE Spec2Model ----
(***************************************************************************)
(* Model of the automation engine of exzork/auto-reroller                  *)
(* (src/core/automation_engine.py, src/games/base_game.py,                 *)
(* src/core/action_types.py): one AutomationInstance per device, each with *)
(* a tick thread (run_automation) and a watchdog thread                    *)
(* (_timeout_checker_loop), driven by the AutomationEngine control loop    *)
(* that saves and restores resume.json.                                    *)
(***************************************************************************)
EXTENDS Integers, Sequences, FiniteSets, TLC

\* ------------------------------------------------------------------ bounds
\* The wall clock advances in steps of ClockStep seconds up to MaxTime.
ClockStep == 30
MaxTime == 90
\* detected_items never grows beyond MaxItems entries in the model.
MaxItems == 1
\* cycle_count and session_count are capped in the guards.
MaxCycles == 1
MaxSessions == 1
\* number of engine processes started one after the other (restart = resume)
MaxRuns == 2

\* ------------------------------------------------------- program constants
\* BaseGame.get_state_timeouts: config.get('timeout', 60)
DefaultStateTimeout == 60

\* Python None for string-valued fields and for the numeric timeout field.
None == "None"
NoTimeout == <<>>

\* dict.get(key, default)
Get(d, key, default) == IF key \in DOMAIN d THEN d[key] ELSE default

\* ------------------------------------------------------------ action trees
\* create_tap_action / create_macro_action: opaque device operations whose
\* boolean result is decided by the device and the detection service.
TapAction == [type |-> "tap", template |-> "button"]
MacroAction == [type |-> "macro", name |-> "gacha"]

\* create_conditional_action(condition, if_true, if_false, timeout,
\*                           likelihood, if_true_state, if_false_state)
JumpConditional ==
    [type |-> "conditional", condition |-> "no_stamina",
     if_true |-> <<TapAction>>, if_false |-> <<>>, timeout |-> NoTimeout,
     if_true_state |-> "finish", if_false_state |-> None]

\* create_state_with_if_condition(if_condition, if_true_actions, timeout,
\*     templates, next_states, if_false_actions, ...)
create_state_with_if_condition(if_condition, if_true_actions, timeout, templates, next_states, if_false_actions) ==
    [timeout |-> timeout,
     templates |-> templates,
     actions |-> <<>>,
     next_states |-> next_states,
     if_condition |-> if_condition,
     if_true_actions |-> if_true_actions,
     if_false_actions |-> if_false_actions]

\* ------------------------------------------------------------- state graphs
\* The game "solo" is a state graph that uses every feature of StateConfig:
\* an action list with a state-jumping Conditional, a legacy macro list, a
\* state without timeout entry, whole-state conditionals with and without
\* templates, a branch-selecting 'pulling_gacha', a skip state and the
\* terminal 'completed' state.
SoloOrder == <<"start", "gate", "choice", "check", "pulling_gacha", "finish", "completed">>

SoloStates ==
    [s \in {SoloOrder[k] : k \in 1..Len(SoloOrder)} |->
       CASE s = "start" ->
              [timeout |-> <<30>>, templates |-> <<>>,
               actions |-> <<TapAction, JumpConditional, TapAction>>,
               next_states |-> <<"gate">>]
         [] s = "gate" ->
              [templates |-> <<"gate_icon">>, actions |-> <<>>,
               macros |-> <<"open", "skip">>,
               next_states |-> <<"choice">>]
         [] s = "choice" ->
              create_state_with_if_condition("banner", <<TapAction>>, NoTimeout,
                                             <<>>, <<"check">>, <<>>)
         [] s = "check" ->
              create_state_with_if_condition("banner", <<TapAction>>, <<30>>,
                                             <<"check_icon">>, <<"pulling_gacha">>, <<>>)
         [] s = "pulling_gacha" ->
              [timeout |-> <<60>>, templates |-> <<>>,
               actions |-> <<MacroAction>>, processes_items |-> TRUE,
               next_states |-> <<"finish", "pulling_gacha">>,
               timeout_state |-> "start"]
         [] s = "finish" ->
              [timeout |-> <<0>>, templates |-> <<>>, actions |-> <<>>,
               next_states |-> <<"completed">>]
         [] s = "completed" ->
              [timeout |-> <<30>>, templates |-> <<>>, actions |-> <<>>,
               next_states |-> <<"start">>]]

\* The game "fleet" is the two-state graph run on several devices at once.
FleetOrder == <<"pulling_first_gacha", "completed">>

FleetStates ==
    [s \in {FleetOrder[k] : k \in 1..Len(FleetOrder)} |->
       CASE s = "pulling_first_gacha" ->
              [timeout |-> <<0>>, templates |-> <<>>,
               actions |-> <<MacroAction>>, processes_items |-> TRUE,
               next_states |-> <<"completed">>]
         [] s = "completed" ->
              [timeout |-> <<0>>, templates |-> <<>>, actions |-> <<>>,
               next_states |-> <<"pulling_first_gacha">>]]

\* The game "duo" is run on two devices at once: a lobby whose button is
\* tapped, and a next state the graph does not define.
DuoOrder == <<"lobby">>

DuoStates ==
    [s \in {DuoOrder[k] : k \in 1..Len(DuoOrder)} |->
       [timeout |-> <<0>>, templates |-> <<>>,
        actions |-> <<TapAction>>,
        next_states |-> <<"ranking">>]]

\* AutomationEngine.__init__(max_instances=...): at most this many devices
max_instances == 2
\* device_manager.get_device_list(): the orders in which the two devices of
\* the fleet can be listed
FleetDeviceLists == {<<"devA", "devB">>, <<"devB", "devA">>}
\* list objects: one per instance plus one per parsed snapshot entry
ListRefs == 1..(2 * max_instances)

VARIABLES
    game_name,          \* game.get_game_name(): which GameDefinition is loaded
    speed_multiplier,   \* macro_executor.speed_multiplier as <<num, den>>
    device_list,        \* device_manager.get_device_list()[:max_instances]
    now,                \* time.time()
    instances,          \* AutomationEngine.instances: the AutomationInstance objects
    heap,               \* the list objects referenced by instance_data['detected_items']
    tick,               \* per instance: position and locals of run_automation
    wd,                 \* per instance: position of _timeout_checker_loop
    engine,             \* AutomationEngine: running flag, position of start()
    resume_file,        \* contents of resume.json (NoFile when absent)
    detected_coordinates, \* engine.image_detector.detected_coordinates
    webhook,            \* the requests posted to the Discord webhook, in order
    call                \* an execute_action call examined on its own

vars == <<game_name, speed_multiplier, device_list, now, instances, heap, tick, wd, engine, resume_file, detected_coordinates, webhook, call>>

NoFile == <<>>

\* No execute_action call is examined on its own.
NoCall == <<>>

\* BaseGame.get_automation_states
get_automation_states(g) ==
    IF g = "solo" THEN SoloStates ELSE IF g = "duo" THEN DuoStates ELSE FleetStates

StateOrder(g) ==
    IF g = "solo" THEN SoloOrder ELSE IF g = "duo" THEN DuoOrder ELSE FleetOrder

AutomationStates == get_automation_states(game_name)

\* BaseGame.get_cycles_per_session
get_cycles_per_session == 1

RECURSIVE FirstIndependent(_, _, _)
FirstIndependent(states, order, k) ==
    IF k > Len(order) THEN order[1]
    ELSE IF ~Get(states[order[k]], "requires_previous_state", FALSE) THEN order[k]
    ELSE FirstIndependent(states, order, k + 1)

\* BaseGame.get_initial_state: the first state without requires_previous_state
get_initial_state == FirstIndependent(AutomationStates, StateOrder(game_name), 1)

\* BaseGame.get_state_timeouts
get_state_timeouts ==
    [s \in DOMAIN AutomationStates |-> Get(AutomationStates[s], "timeout", <<DefaultStateTimeout>>)]


\* --------------------------------------------------------- AutomationInstance
\* BaseGame.create_instance_data: a new dict per call; detected_items is a
\* new list object, whose reference is given by the caller.
create_instance_data(device_id, instance_number, ref) ==
    [device_id |-> device_id,
     instance_number |-> instance_number,
     detected_items |-> ref,
     cycle_count |-> 0,
     session_count |-> 0,
     current_state |-> get_initial_state,
     account_id |-> None]

\* AutomationInstance.__init__
NewInstance(device_id, instance_number, ref, t) ==
    [device_id |-> device_id,
     instance_number |-> instance_number,
     running |-> TRUE,
     instance_data |-> create_instance_data(device_id, instance_number, ref),
     current_state_start_time |-> t,
     current_action_index |-> 0]

\* A change_state that leaves current_action_index as it is.
change_state_keeping_index(self, new_state, t) ==
    [self EXCEPT !.instance_data.current_state = new_state,
                 !.current_state_start_time = t]

\* AutomationInstance.change_state
change_state(self, new_state, t) ==
    [self EXCEPT !.instance_data.current_state = new_state,
                 !.current_state_start_time = t,
                 !.current_action_index = 0]

\* A check_state_timeout that fires as soon as the limit is reached.
check_state_timeout_at_limit(self, t) ==
    LET time_in_state == t - self.current_state_start_time
        base_timeout == Get(get_state_timeouts, self.instance_data.current_state, NoTimeout)
    IN  IF base_timeout = NoTimeout THEN FALSE
        ELSE IF base_timeout[1] <= 0 THEN FALSE
        ELSE time_in_state * speed_multiplier[2] >= base_timeout[1] * speed_multiplier[1]

\* AutomationInstance.check_state_timeout
check_state_timeout(self, t) ==
    LET time_in_state == t - self.current_state_start_time
        state_timeouts == get_state_timeouts
        current_state == self.instance_data.current_state
        base_timeout == Get(state_timeouts, current_state, NoTimeout)
    IN  IF base_timeout = NoTimeout THEN FALSE
        ELSE IF base_timeout[1] <= 0 THEN FALSE
        ELSE \* time_in_state > base_timeout * speed_multiplier
             time_in_state * speed_multiplier[2] > base_timeout[1] * speed_multiplier[1]

\* A list reference that no instance other than n holds: the object a
\* "detected_items = []" assignment of instance n creates.
FreshRef(insts, n) ==
    LET used == {insts[m].instance_data.detected_items : m \in DOMAIN insts \ {n}}
    IN  CHOOSE r \in ListRefs \ used : \A q \in ListRefs \ used : r <= q

\* Unreferenced list objects are garbage: their content is dropped.
Collect(insts, h) ==
    [r \in ListRefs |->
        IF \E m \in DOMAIN insts : insts[m].instance_data.detected_items = r
        THEN h[r] ELSE <<>>]

\* A reset after restart that keeps the cycle counter.
ResetAfterRestart_keeping_cycles(self, ref, t) ==
    LET moved == change_state(self, get_initial_state, t)
    IN  [moved EXCEPT !.instance_data.detected_items = ref,
                      !.instance_data.account_id = None]

\* A reset after restart that starts the session count over as well.
ResetAfterRestart_new_count(self, ref, t) ==
    LET moved == change_state(self, get_initial_state, t)
    IN  [moved EXCEPT !.current_state_start_time = t,
                      !.current_action_index = 0,
                      !.instance_data.session_count = 0,
                      !.instance_data.cycle_count = 0,
                      !.instance_data.detected_items = ref,
                      !.instance_data.account_id = None]

\* The part of AutomationInstance.handle_timeout that follows a successful
\* restart_app: back to the initial state with the counters reset.
ResetAfterRestart(self, ref, t) ==
    LET moved == change_state(self, get_initial_state, t)
    IN  [moved EXCEPT !.current_state_start_time = t,
                      !.current_action_index = 0,
                      !.instance_data.cycle_count = 0,
                      !.instance_data.detected_items = ref,
                      !.instance_data.account_id = None]

\* A reset for the next session that keeps the account id.
reset_for_next_session_keeping_account(self, ref, t) ==
    LET counted == [self EXCEPT !.instance_data.session_count = @ + 1,
                                !.instance_data.cycle_count = 0,
                                !.instance_data.detected_items = ref,
                                !.current_action_index = 0]
    IN  change_state(counted, get_initial_state, t)

\* AutomationInstance.reset_for_next_session
reset_for_next_session(self, ref, t) ==
    LET counted == [self EXCEPT !.instance_data.session_count = @ + 1,
                                !.instance_data.cycle_count = 0,
                                !.instance_data.detected_items = ref,
                                !.instance_data.account_id = None,
                                !.current_action_index = 0]
    IN  change_state(counted, get_initial_state, t)


\* ------------------------------------------------------------- resume.json
\* json.dump / json.load of the values the snapshot holds: None is written
\* as null, a string as a quoted string, a bool as true/false.
json_dump_str(x) == IF x = None THEN <<"null">> ELSE <<"string", x>>
json_load_str(v) == IF v[1] = "null" THEN None ELSE v[2]
json_dump_bool(b) == IF b THEN "true" ELSE "false"
json_load_bool(v) == v = "true"

\* One entry of state_data["instances"] in AutomationEngine.save_state_to_file
instance_state(inst, h) ==
    [device_id |-> json_dump_str(inst.device_id),
     instance_number |-> inst.instance_number,
     current_state |-> json_dump_str(inst.instance_data.current_state),
     session_count |-> inst.instance_data.session_count,
     cycle_count |-> inst.instance_data.cycle_count,
     detected_items |-> h[inst.instance_data.detected_items],
     account_id |-> json_dump_str(inst.instance_data.account_id),
     current_action_index |-> inst.current_action_index,
     current_state_start_time |-> inst.current_state_start_time,
     running |-> json_dump_bool(inst.running)]

\* AutomationEngine.save_state_to_file: the new contents of resume.json
save_state_to_file(insts, h, g) ==
    [game_name |-> json_dump_str(g),
     instances |-> [k \in DOMAIN insts |-> instance_state(insts[k], h)]]

\* resume.json holding a proper prefix of a document, possibly nothing: what
\* open("resume.json", "w") followed by an unfinished json.dump leaves.
TruncatedFile == [truncated |-> TRUE]

\* AutomationEngine.load_state_from_file: None when the file is absent or
\* json.load raises (no proper prefix of the document parses).
load_state_from_file(file) == IF file = TruncatedFile THEN NoFile ELSE file

\* AutomationEngine.can_resume
can_resume(file, g) ==
    LET state_data == load_state_from_file(file)
    IN  /\ state_data # NoFile
        /\ json_load_str(state_data.game_name) = g
        /\ state_data.instances # <<>>

\* AutomationEngine.__init__(force_resume=False)
force_resume == FALSE

RECURSIVE FindSaved(_, _, _, _)
\* The matching loop of create_instances: the index of the first saved
\* instance whose device_id is device_id or whose instance_number is i
\* (0 when there is none).
FindSaved(saved_instances, device_id, i, k) ==
    IF k > Len(saved_instances) THEN 0
    ELSE IF \/ json_load_str(saved_instances[k].device_id) = device_id
            \/ saved_instances[k].instance_number = i
         THEN k
         ELSE FindSaved(saved_instances, device_id, i, k + 1)

\* The list object json.load built for saved entry k.
ParsedRef(k) == max_instances + k

\* The instance create_instances builds for the i-th device of the list.
CreatedInstance(devs, file, i, t) ==
    LET fresh == NewInstance(devs[i], i, i, t)
        resume_mode == file # NoFile /\ (can_resume(file, game_name) \/ force_resume)
        k == IF resume_mode THEN FindSaved(file.instances, devs[i], i, 1) ELSE 0
    IN  IF k = 0 THEN fresh
        ELSE LET saved_instance == file.instances[k]
             IN  [fresh EXCEPT
                    !.instance_data.current_state = json_load_str(saved_instance.current_state),
                    !.instance_data.session_count = saved_instance.session_count,
                    !.instance_data.cycle_count = saved_instance.cycle_count,
                    !.instance_data.detected_items = ParsedRef(k),
                    !.instance_data.account_id = json_load_str(saved_instance.account_id),
                    !.current_action_index = saved_instance.current_action_index,
                    !.current_state_start_time = t,
                    !.running = json_load_bool(saved_instance.running)]

\* AutomationEngine.create_instances: one instance per listed device
create_instances(devs, file, t) ==
    [i \in 1..Len(devs) |-> CreatedInstance(devs, file, i, t)]

\* The list objects after create_instances: those json.load built.
LoadedHeap(file) ==
    [r \in ListRefs |->
        IF file # NoFile /\ r > max_instances /\ r - max_instances <= Len(file.instances)
        THEN file.instances[r - max_instances].detected_items
        ELSE <<>>]

\* ------------------------------------------------------------ ImageDetector
\* The template names under which some Tap reads the coordinate cache;
\* entries under names no action reads are not kept.
TapTemplates == {TapAction.template}

\* No entry under a name: dict.get returns None.
NoCoordinates == "None"

\* ImageDetector.__init__: self.detected_coordinates = {}
EmptyCoordinates == [t \in TapTemplates |-> NoCoordinates]

\* ImageDetector.detect_template on a match: the centre of the match, a point
\* of the frame of device_id, is stored under the template's name.
store_coordinates(cache, template_name, device_id) ==
    IF template_name \in DOMAIN cache
    THEN [cache EXCEPT ![template_name] = device_id]
    ELSE cache

\* ImageDetector.get_detected_coordinates
get_detected_coordinates(cache, template_name) == Get(cache, template_name, NoCoordinates)

\* ImageDetector.clear_detected_coordinates
clear_detected_coordinates(cache) == [t \in DOMAIN cache |-> NoCoordinates]

\* ------------------------------------------------------------ thread state
\* run_automation before its first tick / between two ticks
IdleTick ==
    [pc |-> "loop", state |-> None, kind |-> None, i |-> 0,
     branch |-> <<>>, j |-> 0, successful_actions |-> 0, target_state |-> None,
     overall |-> NoTimeout, start_time |-> 0, action_start_time |-> 0,
     retries |-> 0, template_detected |-> FALSE, skipped |-> FALSE]

Instances == DOMAIN instances

\* The threads are daemon threads: they run while the process lives, also
\* after start() has returned, and die with the process.
ProcessAlive == engine.pc \in {"control", "finalize", "exited"}

\* ------------------------------------------------------------------- Init
InitCommon ==
    /\ now = 0
    /\ instances = <<>>
    /\ heap = [r \in ListRefs |-> <<>>]
    /\ tick = <<>>
    /\ wd = <<>>
    /\ engine = [pc |-> "created", running |-> TRUE, run |-> 1, after_stop |-> FALSE,
                 cleaned |-> FALSE]
    /\ resume_file = NoFile
    /\ detected_coordinates = EmptyCoordinates
    /\ webhook = <<>>
    /\ call = NoCall

Init ==
    /\ game_name = "solo"
    /\ speed_multiplier \in {<<1, 1>>, <<1, 2>>}
    /\ device_list = <<"devA">>
    /\ InitCommon

\* ----------------------------------------------------------- AutomationEngine
\* AutomationEngine.start up to the control loop: create_instances, one
\* run_automation thread per instance (which starts its watchdog).
EngineStart ==
    /\ engine.pc = "created"
    /\ LET devs == SubSeq(device_list, 1, IF Len(device_list) < max_instances THEN Len(device_list) ELSE max_instances)
           saved_state == load_state_from_file(resume_file)
           insts == create_instances(devs, saved_state, now)
       IN  /\ instances' = insts
           /\ heap' = Collect(insts, LoadedHeap(saved_state))
           /\ tick' = [i \in DOMAIN insts |-> IdleTick]
           /\ wd' = [i \in DOMAIN insts |-> [pc |-> "check"]]
    /\ engine' = [engine EXCEPT !.pc = "control"]
    /\ UNCHANGED <<call, detected_coordinates, webhook, game_name, speed_multiplier, device_list, now, resume_file>>

\* The control loop finds no instance running and leaves the loop.
EngineAllStopped ==
    /\ engine.pc = "control"
    /\ ~(\E i \in Instances : instances[i].running)
    /\ engine' = [engine EXCEPT !.pc = "finalize"]
    /\ UNCHANGED <<call, detected_coordinates, webhook, game_name, speed_multiplier, device_list, now, instances, heap, tick, wd, resume_file>>

\* A periodic save that hands the item lists over to the snapshot and
\* leaves them empty.
EngineSaveState_draining ==
    /\ engine.pc = "control"
    /\ \E i \in Instances : instances[i].running
    /\ resume_file' = save_state_to_file(instances, heap, game_name)
    /\ heap' = [r \in DOMAIN heap |-> <<>>]
    /\ UNCHANGED <<call, detected_coordinates, webhook, game_name, speed_multiplier, device_list, now, instances, tick, wd, engine>>

\* The control loop's periodic save_state_to_file (every 30 seconds).
EngineSaveState ==
    /\ engine.pc = "control"
    /\ \E i \in Instances : instances[i].running
    /\ resume_file' = save_state_to_file(instances, heap, game_name)
    /\ UNCHANGED <<call, detected_coordinates, webhook, game_name, speed_multiplier, device_list, now, instances, heap, tick, wd, engine>>

\* A completion test that asks for more sessions than the target.
check_completion_strict(insts) ==
    LET RECURSIVE Sum(_)
        Sum(k) == IF k = 0 THEN 0 ELSE insts[k].instance_data.session_count + Sum(k - 1)
    IN  Sum(Len(insts)) > Len(insts) * get_cycles_per_session

\* AutomationEngine.check_completion_and_cleanup
check_completion(insts) ==
    LET RECURSIVE Sum(_)
        Sum(k) == IF k = 0 THEN 0 ELSE insts[k].instance_data.session_count + Sum(k - 1)
        total_sessions == Sum(Len(insts))
        target_sessions == Len(insts) * get_cycles_per_session
    IN  total_sessions >= target_sessions

\* The control loop's periodic completion check (every 10 seconds); cleaned
\* tells that cleanup_resume_file has been called in this run.
EngineCheckCompletion ==
    /\ engine.pc = "control"
    /\ \E i \in Instances : instances[i].running
    /\ resume_file' = IF check_completion(instances) THEN NoFile ELSE resume_file
    /\ engine' = [engine EXCEPT !.cleaned = @ \/ check_completion(instances)]
    /\ UNCHANGED <<call, detected_coordinates, webhook, game_name, speed_multiplier, device_list, now, instances, heap, tick, wd>>

\* Key 'q' (or KeyboardInterrupt): the cooperative stop flag is set on the
\* engine and on every instance.
EngineStop ==
    /\ engine.pc = "control"
    /\ \E i \in Instances : instances[i].running
    /\ engine' = [engine EXCEPT !.running = FALSE, !.pc = "finalize"]
    /\ instances' = [i \in Instances |-> [instances[i] EXCEPT !.running = FALSE]]
    /\ UNCHANGED <<call, detected_coordinates, webhook, game_name, speed_multiplier, device_list, now, heap, tick, wd, resume_file>>

\* After the loop: the final save_state_to_file, the bounded joins, return.
EngineFinalize ==
    /\ engine.pc = "finalize"
    /\ resume_file' = save_state_to_file(instances, heap, game_name)
    /\ engine' = [engine EXCEPT !.pc = "exited"]
    /\ UNCHANGED <<call, detected_coordinates, webhook, game_name, speed_multiplier, device_list, now, instances, heap, tick, wd>>

\* The process dies inside the control loop (crash, kill, power loss): no
\* final save; resume.json is what the last periodic save left.
ProcessKilled ==
    /\ engine.pc = "control"
    /\ engine' = [engine EXCEPT !.pc = "killed"]
    /\ UNCHANGED <<call, detected_coordinates, webhook, game_name, speed_multiplier, device_list, now, instances, heap, tick, wd, resume_file>>

\* The process dies inside save_state_to_file, after open("resume.json", "w")
\* has truncated the file and before json.dump has written the whole
\* document: in the periodic save of the control loop or in the final save.
ProcessKilledInSave ==
    /\ \/ engine.pc = "control" /\ \E i \in Instances : instances[i].running
       \/ engine.pc = "finalize"
    /\ resume_file' = TruncatedFile
    /\ engine' = [engine EXCEPT !.pc = "killed"]
    /\ UNCHANGED <<call, detected_coordinates, webhook, game_name, speed_multiplier, device_list, now, instances, heap, tick, wd>>

\* The program is started again: a new engine, the devices listed in some
\* order, resume.json as the previous process left it. after_stop tells
\* whether the previous process ended by the stop key, final save included.
ProcessRestart ==
    /\ engine.pc \in {"exited", "killed"}
    /\ engine.run < MaxRuns
    /\ engine' = [pc |-> "created", running |-> TRUE, run |-> engine.run + 1,
                  after_stop |-> engine.pc = "exited" /\ ~engine.running,
                  cleaned |-> FALSE]
    /\ device_list' \in (IF Len(device_list) = 1 THEN {device_list} ELSE FleetDeviceLists)
    /\ instances' = <<>>
    /\ heap' = [r \in ListRefs |-> <<>>]
    /\ tick' = <<>>
    /\ wd' = <<>>
    /\ detected_coordinates' = EmptyCoordinates
    /\ UNCHANGED <<call, webhook, game_name, speed_multiplier, now, resume_file>>

\* time.time() advances.
ClockAdvance ==
    /\ now + ClockStep <= MaxTime
    /\ now' = now + ClockStep
    /\ UNCHANGED <<call, detected_coordinates, webhook, game_name, speed_multiplier, device_list, instances, heap, tick, wd, engine, resume_file>>


\* ------------------------------------------------------------------ watchdog
\* handle_timeout: the timeout_state the current state declares (None when
\* it declares none or the state is unknown).
timeout_state_of(self) ==
    LET current_state == self.instance_data.current_state
        state_config == Get(AutomationStates, current_state, <<>>)
    IN  Get(state_config, "timeout_state", None)

\* One pass of _timeout_checker_loop: leave the loop when running is false,
\* else check_state_timeout; without a timeout, time.sleep(5) and the next
\* pass.
WdCheck(n) ==
    /\ ProcessAlive
    /\ n \in Instances
    /\ wd[n].pc = "check"
    /\ wd' = [wd EXCEPT ![n].pc =
                IF ~instances[n].running THEN "stopped"
                ELSE IF check_state_timeout(instances[n], now) THEN "handle"
                ELSE "check"]
    /\ UNCHANGED <<call, detected_coordinates, webhook, game_name, speed_multiplier, device_list, now, instances, heap, tick, engine, resume_file>>

\* handle_timeout: jump to the timeout_state (then time.sleep(5) and the next
\* pass), or call restart_app.
WdHandle(n) ==
    /\ ProcessAlive
    /\ n \in Instances
    /\ wd[n].pc = "handle"
    /\ LET timeout_state == timeout_state_of(instances[n])
       IN  IF timeout_state # None /\ timeout_state # ""
           THEN /\ instances' = [instances EXCEPT ![n] = change_state(@, timeout_state, now)]
                /\ wd' = [wd EXCEPT ![n].pc = "check"]
           ELSE /\ wd' = [wd EXCEPT ![n].pc = "restart"]
                /\ UNCHANGED instances
    /\ UNCHANGED <<call, detected_coordinates, webhook, game_name, speed_multiplier, device_list, now, heap, tick, engine, resume_file>>

\* A failed recovery that leaves the running flag set.
RecoveryFailed_still_running(self) == self

\* _timeout_checker_loop when handle_timeout returned False: "Timeout
\* recovery failed", self.running = False, break.
RecoveryFailed(self) == [self EXCEPT !.running = FALSE]

\* handle_timeout after device_manager.restart_app returned ok: reset to the
\* initial state, or report failure, which ends the watchdog and clears
\* running.
WdRestartDone(n) ==
    /\ ProcessAlive
    /\ n \in Instances
    /\ wd[n].pc = "restart"
    /\ \E ok \in BOOLEAN :
         IF ok
         THEN LET ref == FreshRef(instances, n)
              IN  /\ instances' = [instances EXCEPT ![n] = ResetAfterRestart(@, ref, now)]
                  /\ heap' = Collect(instances', [heap EXCEPT ![ref] = <<>>])
                  /\ wd' = [wd EXCEPT ![n].pc = "check"]
         ELSE /\ instances' = [instances EXCEPT ![n] = RecoveryFailed(@)]
              /\ wd' = [wd EXCEPT ![n].pc = "stopped"]
              /\ UNCHANGED heap
    /\ UNCHANGED <<call, detected_coordinates, webhook, game_name, speed_multiplier, device_list, now, tick, engine, resume_file>>


\* ---------------------------------------------------------------- tick loop
\* What one step of a thread leaves behind for instance n: the instance, the
\* list objects, the thread position, the coordinate cache of the detector.
ApplyWith(n, self, h, tk, cache) ==
    /\ instances' = [instances EXCEPT ![n] = self]
    /\ heap' = Collect(instances', h)
    /\ tick' = [tick EXCEPT ![n] = tk]
    /\ detected_coordinates' = cache
    /\ UNCHANGED webhook

\* A step that does not touch the coordinate cache.
Apply(n, self, h, tk) == ApplyWith(n, self, h, tk, detected_coordinates)

\* A tick loop that goes on where it should end.
ExitTick_continuing ==
    [pc |-> "loop", state |-> None, kind |-> None, i |-> 0,
     branch |-> <<>>, j |-> 0, successful_actions |-> 0, target_state |-> None,
     overall |-> NoTimeout, start_time |-> 0, action_start_time |-> 0,
     retries |-> 0, template_detected |-> FALSE, skipped |-> FALSE]

\* run_automation leaves its loop: the loop condition, the break on an
\* unknown state, or an exception caught at the loop boundary. The finally
\* clause calls stop_background_timeout_checker, which only joins the
\* watchdog thread for at most one second and sets no flag.
ExitTick == [IdleTick EXCEPT !.pc = "exited"]

\* run_automation after a successful list entry or transition: a fresh frame
\* is captured and, when there is one, the coordinate cache is cleared.
CacheAfterFreshFrame(cache, fresh_screenshot) ==
    IF fresh_screenshot THEN clear_detected_coordinates(cache) ELSE cache

\* The list a state executes: its actions, else its legacy macros.
ListOf(state_config, kind) ==
    IF kind = "actions" THEN Get(state_config, "actions", <<>>)
    ELSE Get(state_config, "macros", <<>>)

\* run_automation, "Transition to next state": the target chosen among the
\* next_states of the state whose list was executed.
next_state_of(self, state_config) ==
    LET next_states == Get(state_config, "next_states", <<>>)
        cycles_completed == self.instance_data.cycle_count
        cycles_needed == get_cycles_per_session
        current_state == self.instance_data.current_state
    IN  IF current_state = "pulling_gacha" /\ Len(next_states) >= 2
        THEN IF cycles_completed < cycles_needed
             THEN IF \E k \in 1..Len(next_states) : next_states[k] = "pulling_gacha"
                  THEN "pulling_gacha" ELSE next_states[2]
             ELSE IF next_states[1] # "pulling_gacha" THEN next_states[1] ELSE next_states[2]
        ELSE next_states[1]

\* run_automation after the list or the whole-state conditional succeeded.
Transition(self, state_config, t) ==
    IF Get(state_config, "next_states", <<>>) # <<>>
    THEN change_state(self, next_state_of(self, state_config), t)
    ELSE self

\* An auto-transition that leaves the instance where it is.
auto_transition_staying(self, state_config, t) == self

\* run_automation, "Handle states with no templates and no actions
\* (auto-transition)": always the first of the next_states.
auto_transition(self, state_config, t) ==
    LET next_states == Get(state_config, "next_states", <<>>)
    IN  IF next_states # <<>> THEN change_state(self, next_states[1], t) ELSE self

\* The outcomes is_new_cycle and process_screenshot_for_items can have after
\* a successful list entry of a state that processes items.
ItemOutcomes(self, h, state_config) ==
    IF Get(state_config, "processes_items", FALSE) = TRUE
    THEN {[new_cycle |-> c, detected_items |-> d] :
             c \in (IF self.instance_data.cycle_count < MaxCycles THEN BOOLEAN ELSE {FALSE}),
             d \in (IF Len(h[self.instance_data.detected_items]) < MaxItems
                    THEN {<<>>, <<"SSR">>} ELSE {<<>>})}
    ELSE {[new_cycle |-> FALSE, detected_items |-> <<>>]}

\* run_automation after list entry i (counted from 0) succeeded: the index
\* moves to i + 1, then the items of a new cycle are collected.
AfterSuccess(self, i, o) ==
    LET advanced == [self EXCEPT !.current_action_index = i + 1]
    IN  IF o.new_cycle
        THEN [advanced EXCEPT !.instance_data.cycle_count = @ + 1]
        ELSE advanced

HeapAfterSuccess(self, h, o) ==
    IF o.new_cycle /\ o.detected_items # <<>>
    THEN [h EXCEPT ![self.instance_data.detected_items] = @ \o o.detected_items]
    ELSE h

\* The game's configuration: the card scores, the score of any other item,
\* and the score from which a session is worth a notification.
get_card_scoring == [SSR |-> 50]
get_default_item_score == 5
get_minimum_score_threshold == 45

\* BaseGame.has_discord_webhook: a webhook URL is configured (the game
\* "fleet" is configured without one).
has_discord_webhook == game_name # "fleet"

RECURSIVE calculate_score(_)
\* calculate_score: the total of the scores of the detected items
calculate_score(detected_items) ==
    IF detected_items = <<>> THEN 0
    ELSE Get(get_card_scoring, Head(detected_items), get_default_item_score)
             + calculate_score(Tail(detected_items))

\* BaseGame.should_send_discord_notification
should_send_discord_notification(detected_items) ==
    IF ~has_discord_webhook THEN FALSE
    ELSE calculate_score(detected_items) >= get_minimum_score_threshold

\* AutomationEngine.write_status_to_file: the lines of status.txt that come
\* from the instances (total sessions; per instance its number, sessions,
\* score and state).
status_lines(insts, h) ==
    LET RECURSIVE Sum(_)
        Sum(k) == IF k = 0 THEN 0 ELSE insts[k].instance_data.session_count + Sum(k - 1)
    IN  [total_sessions |-> Sum(Len(insts)),
         instances |-> [k \in DOMAIN insts |->
                          [instance_number |-> insts[k].instance_number,
                           session_count |-> insts[k].instance_data.session_count,
                           total_score |-> calculate_score(h[insts[k].instance_data.detected_items]),
                           current_state |-> insts[k].instance_data.current_state]]]

\* The control loop's periodic write_status_to_file (every 5 seconds).
\* status.txt is written for the operator and read by nothing: it is no
\* part of the state.
EngineWriteStatus ==
    /\ engine.pc = "control"
    /\ \E i \in Instances : instances[i].running
    /\ status_lines(instances, heap).total_sessions >= 0
    /\ UNCHANGED vars

\* complete_session, "Send Discord notification if score is high enough":
\* the requests posted after the session of self, whose requests.post
\* reports delivered or not.
WebhookAfterSession(posted, self, h, account_id, delivered) ==
    LET detected_items == h[self.instance_data.detected_items]
    IN  IF should_send_discord_notification(detected_items)
        THEN Append(posted, [instance_id |-> self.instance_number,
                             device_id |-> self.device_id,
                             total_score |-> calculate_score(detected_items),
                             delivered |-> delivered])
        ELSE posted

\* AutomationInstance.complete_session followed by reset_for_next_session
complete_session(self, ref, account_id, t) ==
    LET named == IF account_id # None
                 THEN [self EXCEPT !.instance_data.account_id = account_id]
                 ELSE self
    IN  reset_for_next_session(named, ref, t)

\* A Python timeout value that is set and not zero ("if timeout and ...").
Truthy(timeout) == timeout # NoTimeout /\ timeout[1] # 0

\* time.time() is kept in a local only where the code reads it again.
Stamp(timeout, t) == IF Truthy(timeout) THEN t ELSE 0

\* A tick that runs the list of its state whatever the frame shows.
should_execute_actions_always(template_detected, templates, actions, macros) == TRUE

\* run_automation: should_execute_actions = (template_detected or
\* (not templates and (actions or macros)))
should_execute_actions(template_detected, templates, actions, macros) ==
    template_detected \/ (templates = <<>> /\ (actions # <<>> \/ macros # <<>>))

\* The head of one pass of the while loop of run_automation, up to the
\* first list entry: loop check, frame capture, state lookup, template
\* detection, session completion, auto-transition, branch selection of a
\* whole-state conditional. The frame capture returns a frame, returns None
\* (the pass is skipped) or raises (the fallback call
\* device_manager.get_screenshot(device_id, save_to_file) on a manager whose
\* get_screenshot takes the device only): the exception is caught at the
\* loop boundary and the thread ends.
TickBegin(n) ==
    /\ ProcessAlive
    /\ n \in Instances
    /\ tick[n].pc = "loop"
    /\ UNCHANGED <<call, game_name, speed_multiplier, device_list, now, wd, engine, resume_file>>
    /\ LET self == instances[n]
           current_state == self.instance_data.current_state
       IN  IF ~self.running
           THEN Apply(n, self, heap, ExitTick)
           ELSE IF current_state \notin DOMAIN AutomationStates
           THEN \E screenshot \in BOOLEAN, raised \in BOOLEAN :
                  Apply(n, self, heap, IF screenshot \/ raised THEN ExitTick ELSE tick[n])
           ELSE
           LET state_config == AutomationStates[current_state]
               templates == Get(state_config, "templates", <<>>)
               actions == Get(state_config, "actions", <<>>)
               macros == Get(state_config, "macros", <<>>)
               if_condition == Get(state_config, "if_condition", None)
           IN  \E screenshot \in BOOLEAN, template_detected \in BOOLEAN, condition_met \in BOOLEAN,
                  account_id \in {None, "acct"}, raised \in BOOLEAN, fresh_screenshot \in BOOLEAN,
                  delivered \in BOOLEAN :
               /\ templates = <<>> => ~template_detected
               /\ IF ~screenshot
                  THEN Apply(n, self, heap, IF raised THEN ExitTick ELSE tick[n])
                  ELSE IF current_state = "completed"
                  THEN /\ self.instance_data.session_count < MaxSessions
                       /\ LET ref == FreshRef(instances, n)
                          IN  /\ instances' = [instances EXCEPT
                                                  ![n] = complete_session(self, ref, account_id, now)]
                              /\ heap' = Collect(instances', [heap EXCEPT ![ref] = <<>>])
                              /\ tick' = [tick EXCEPT ![n] = IdleTick]
                              /\ webhook' = WebhookAfterSession(webhook, self, heap, account_id, delivered)
                              /\ UNCHANGED detected_coordinates
                  ELSE IF templates = <<>> /\ actions = <<>> /\ macros = <<>>
                  THEN Apply(n, auto_transition(self, state_config, now), heap, IdleTick)
                  ELSE IF ~should_execute_actions(template_detected, templates, actions, macros)
                  THEN Apply(n, self, heap, [IdleTick EXCEPT !.skipped = TRUE])
                  ELSE IF if_condition # None
                  THEN LET actions_to_execute ==
                               IF condition_met
                               THEN Get(state_config, "if_true_actions", <<>>)
                               ELSE Get(state_config, "if_false_actions", <<>>)
                       IN  Apply(n, self, heap,
                             [IdleTick EXCEPT
                                !.pc = "ifcond", !.state = current_state, !.j = 1,
                                !.template_detected = template_detected,
                                !.branch = actions_to_execute,
                                !.action_start_time =
                                    Stamp(IF actions_to_execute # <<>>
                                          THEN Get(actions_to_execute[1], "timeout", NoTimeout)
                                          ELSE NoTimeout, now)])
                  ELSE IF actions # <<>>
                  THEN Apply(n, self, heap,
                             [IdleTick EXCEPT !.pc = "list", !.state = current_state,
                                              !.template_detected = template_detected,
                                              !.kind = "actions", !.i = self.current_action_index])
                  ELSE IF macros # <<>>
                  THEN Apply(n, self, heap,
                             [IdleTick EXCEPT !.pc = "list", !.state = current_state,
                                              !.template_detected = template_detected,
                                              !.kind = "macros", !.i = self.current_action_index])
                  ELSE ApplyWith(n, Transition(self, state_config, now), heap,
                                 [IdleTick EXCEPT !.template_detected = template_detected],
                                 CacheAfterFreshFrame(detected_coordinates, fresh_screenshot))


\* One pass of "while not action_success" for branch entry j of a Conditional
\* action or of a whole-state conditional: the overall timeout, the entry's
\* own timeout, a fresh frame, one attempt. A failed attempt is retried; the
\* loop reads no stop flag.
RetryStep(tk, t, screenshot, ok) ==
    LET action == tk.branch[tk.j]
        action_timeout == Get(action, "timeout", NoTimeout)
        next_timeout == IF tk.j < Len(tk.branch)
                        THEN Get(tk.branch[tk.j + 1], "timeout", NoTimeout) ELSE NoTimeout
    IN  IF Truthy(tk.overall) /\ t - tk.start_time > tk.overall[1]
        THEN [tk EXCEPT !.j = Len(tk.branch) + 1, !.retries = 0]
        ELSE IF Truthy(action_timeout) /\ t - tk.action_start_time > action_timeout[1]
        THEN [tk EXCEPT !.j = @ + 1, !.retries = 0, !.action_start_time = Stamp(next_timeout, t)]
        ELSE IF screenshot /\ ok
        THEN [tk EXCEPT !.j = @ + 1, !.retries = 0, !.successful_actions = @ + 1,
                        !.action_start_time = Stamp(next_timeout, t)]
        ELSE [tk EXCEPT !.retries = 1 - @]

\* The pass of "while not action_success" makes an attempt: neither the
\* overall timeout nor the entry's own timeout has expired.
RetryAttempts(tk, t) ==
    LET action_timeout == Get(tk.branch[tk.j], "timeout", NoTimeout)
    IN  /\ ~(Truthy(tk.overall) /\ t - tk.start_time > tk.overall[1])
        /\ ~(Truthy(action_timeout) /\ t - tk.action_start_time > action_timeout[1])

\* The coordinate cache after one pass of "while not action_success": a Tap
\* that is attempted on a frame of device_id and whose template is detected
\* stores the match.
CacheAfterRetry(cache, tk, t, device_id, screenshot, detected) ==
    LET action == tk.branch[tk.j]
    IN  IF RetryAttempts(tk, t) /\ screenshot /\ detected /\ action.type = "tap"
        THEN store_coordinates(cache, action.template, device_id)
        ELSE cache

\* run_automation after execute_action (or execute_macro) returned True for
\* list entry tk.i: the index moves on, a fresh frame is captured and the
\* coordinate cache cleared, the items of a new cycle are collected.
EntrySucceeded(n, self, tk, state_config) ==
    \E o \in ItemOutcomes(self, heap, state_config), fresh_screenshot \in BOOLEAN :
        ApplyWith(n, AfterSuccess(self, tk.i, o), HeapAfterSuccess(self, heap, o),
                  [tk EXCEPT !.pc = "list", !.i = @ + 1],
                  CacheAfterFreshFrame(detected_coordinates, fresh_screenshot))

\* The for loop over a state's actions (or legacy macros) in run_automation,
\* one entry per step, from the index the pass started at. A Tap entry is
\* executed in two steps: here execute_tap detects the template in the frame
\* of the tick, which stores the match in the coordinate cache.
TickList(n) ==
    /\ ProcessAlive
    /\ n \in Instances
    /\ tick[n].pc = "list"
    /\ UNCHANGED <<call, game_name, speed_multiplier, device_list, now, wd, engine, resume_file>>
    /\ LET self == instances[n]
           tk == tick[n]
           state_config == AutomationStates[tk.state]
           list == ListOf(state_config, tk.kind)
       IN  IF tk.i >= Len(list)
           THEN \* all entries succeeded: reset the index, then transition
                \E fresh_screenshot \in BOOLEAN :
                  ApplyWith(n, Transition([self EXCEPT !.current_action_index = 0], state_config, now),
                            heap, IdleTick,
                            CacheAfterFreshFrame(detected_coordinates, fresh_screenshot))
           ELSE LET action == list[tk.i + 1]
                IN  IF tk.kind = "actions" /\ action.type = "conditional"
                    THEN \E condition_met \in BOOLEAN :
                           LET first == IF condition_met THEN action.if_true ELSE action.if_false
                           IN  Apply(n, self, heap,
                                 [tk EXCEPT
                                    !.pc = "cond", !.j = 1, !.successful_actions = 0,
                                    !.branch = first,
                                    !.target_state = IF condition_met THEN action.if_true_state
                                                     ELSE action.if_false_state,
                                    !.overall = action.timeout,
                                    !.start_time = Stamp(action.timeout, now),
                                    !.action_start_time =
                                        Stamp(IF first # <<>> THEN Get(first[1], "timeout", NoTimeout)
                                              ELSE NoTimeout, now)])
                    ELSE IF tk.kind = "actions" /\ action.type = "tap"
                    THEN \E detected \in BOOLEAN :
                           IF ~detected
                           THEN \* template not found: the entry failed
                                Apply(n, self, heap, IdleTick)
                           ELSE ApplyWith(n, self, heap, [tk EXCEPT !.pc = "tap"],
                                          store_coordinates(detected_coordinates, action.template,
                                                            self.device_id))
                    ELSE \E ok \in BOOLEAN :
                           IF ~ok
                           THEN \* the entry failed: keep the index, stay in the state
                                Apply(n, self, heap, IdleTick)
                           ELSE EntrySucceeded(n, self, tk, state_config)

\* execute_tap after the template was detected: the coordinates are read
\* back from the coordinate cache and the device is tapped there.
TickTap(n) ==
    /\ ProcessAlive
    /\ n \in Instances
    /\ tick[n].pc = "tap"
    /\ UNCHANGED <<call, game_name, speed_multiplier, device_list, now, wd, engine, resume_file>>
    /\ LET self == instances[n]
           tk == tick[n]
           state_config == AutomationStates[tk.state]
           action == ListOf(state_config, tk.kind)[tk.i + 1]
           coordinates == get_detected_coordinates(detected_coordinates, action.template)
       IN  IF coordinates = NoCoordinates
           THEN \* "No coordinates found for template": the entry failed
                Apply(n, self, heap, IdleTick)
           ELSE \E tap_success \in BOOLEAN :
                  IF ~tap_success
                  THEN Apply(n, self, heap, IdleTick)
                  ELSE EntrySucceeded(n, self, tk, state_config)

\* execute_action for a Conditional entry of the list: the retry loop over
\* the selected branch, then the state jump and the return to the list.
TickCond(n) ==
    /\ ProcessAlive
    /\ n \in Instances
    /\ tick[n].pc = "cond"
    /\ UNCHANGED <<call, game_name, speed_multiplier, device_list, now, wd, engine, resume_file>>
    /\ LET self == instances[n]
           tk == tick[n]
           state_config == AutomationStates[tk.state]
       IN  IF tk.j <= Len(tk.branch)
           THEN \E screenshot \in BOOLEAN, detected \in BOOLEAN, tap_success \in BOOLEAN :
                  ApplyWith(n, self, heap, RetryStep(tk, now, screenshot, detected /\ tap_success),
                            CacheAfterRetry(detected_coordinates, tk, now, self.device_id,
                                            screenshot, detected))
           ELSE LET jumps == tk.target_state # None /\ tk.target_state # ""
                    jumped == IF jumps THEN change_state(self, tk.target_state, now) ELSE self
                    action_success == jumps \/ tk.successful_actions > 0 \/ Len(tk.branch) = 0
                IN  IF ~action_success
                    THEN Apply(n, jumped, heap, IdleTick)
                    ELSE EntrySucceeded(n, jumped, [IdleTick EXCEPT !.state = tk.state,
                                                       !.kind = tk.kind, !.i = tk.i],
                                        state_config)

\* run_automation, "Handle if condition logic": the retry loop over the
\* branch of a whole-state conditional, then the transition.
TickIfCond(n) ==
    /\ ProcessAlive
    /\ n \in Instances
    /\ tick[n].pc = "ifcond"
    /\ UNCHANGED <<call, game_name, speed_multiplier, device_list, now, wd, engine, resume_file>>
    /\ LET self == instances[n]
           tk == tick[n]
           state_config == AutomationStates[tk.state]
       IN  IF tk.j <= Len(tk.branch)
           THEN \E screenshot \in BOOLEAN, detected \in BOOLEAN, tap_success \in BOOLEAN :
                  ApplyWith(n, self, heap, RetryStep(tk, now, screenshot, detected /\ tap_success),
                            CacheAfterRetry(detected_coordinates, tk, now, self.device_id,
                                            screenshot, detected))
           ELSE LET action_success == tk.successful_actions > 0 \/ Len(tk.branch) = 0
                IN  IF action_success
                    THEN \E fresh_screenshot \in BOOLEAN :
                           ApplyWith(n, Transition(self, state_config, now), heap, IdleTick,
                                     CacheAfterFreshFrame(detected_coordinates, fresh_screenshot))
                    ELSE Apply(n, self, heap, IdleTick)

\* ------------------------------------------------------------ execute_action
\* One call execute_action(action_config, screenshot) of a Loop or a Tap,
\* followed on its own: call holds the arguments and the locals.
\* iterations of a Loop without limit, and retries of a Tap between two
\* readings of the clock, that the model follows
MaxIterations == 2
MaxAttempts == 2

\* A Tap as a body action of a Loop, without and with a timeout.
BodyTap == [type |-> "tap", template |-> TapAction.template, timeout |-> NoTimeout]
TimedBodyTap == [type |-> "tap", template |-> TapAction.template, timeout |-> <<ClockStep>>]

\* A Loop as a body action of a Loop: one frame per iteration, a Macro body.
InnerLoop ==
    [type |-> "loop", actions |-> <<MacroAction>>, max_iterations |-> <<1>>,
     condition |-> None, timeout |-> NoTimeout, use_single_screenshot |-> TRUE]

\* create_loop_action / create_loop_action_with_single_screenshot: the body
\* is a list of actions, max_iterations and timeout are None (<<>>) or a
\* number, condition is None or a template name.
LoopActions ==
    {[type |-> "loop", actions |-> body, max_iterations |-> m, condition |-> c,
      timeout |-> t, use_single_screenshot |-> u] :
        body \in {<<>>, <<MacroAction>>, <<MacroAction, MacroAction>>,
                  <<BodyTap>>, <<TimedBodyTap>>, <<InnerLoop>>},
        m \in {NoTimeout} \cup {<<k>> : k \in 0..MaxIterations},
        c \in {None, "exit_icon"},
        t \in {NoTimeout, <<ClockStep>>},
        u \in BOOLEAN}

\* create_tap_action(template, timeout=...)
TapActions ==
    {[type |-> "tap", template |-> TapAction.template, timeout |-> t] :
        t \in {NoTimeout, <<0>>, <<ClockStep>>, <<2 * ClockStep>>}}

\* Values of self._current_screenshot: the attribute is absent, holds the
\* frame pinned before the call, or the frame a Loop captured for its
\* iteration (the called Loop, or a Loop of its body).
NoFrame == "absent"
OriginalFrame == "original"
LoopFrame(depth) == IF depth = 1 THEN "outer" ELSE "inner"

\* The call as execute_action begins: screenshot tells whether a frame was
\* passed, pinned whether self._current_screenshot is set. inner is the call
\* of the body action in progress, original_screenshot the local of the same
\* name, current_screenshot the attribute self._current_screenshot (kept in
\* the outermost call).
NewCall(action, screenshot, pinned, t) ==
    [action |-> action, screenshot |-> screenshot, pinned |-> pinned,
     pc |-> IF action.type = "loop" THEN "loop_head" ELSE "tap",
     result |-> FALSE,
     start_time |-> t,
     iteration |-> 0, k |-> 0, passes |-> 0,
     body_failed |-> FALSE, capture_failed |-> FALSE,
     attempts |-> 0, captures |-> 0, detections |-> 0, frame |-> "none",
     matched |-> FALSE, taps |-> 0,
     exit_condition_met |-> FALSE,
     depth |-> 1, inner |-> NoCall,
     original_screenshot |-> NoFrame,
     current_screenshot |-> IF pinned THEN OriginalFrame ELSE NoFrame]

\* return result
Return(c, result) == [c EXCEPT !.pc = "returned", !.result = result]

\* self.get_screenshot() raised (the fallback call of a manager whose
\* get_screenshot takes the device only): execute_action has no handler, the
\* exception leaves the call.
Raise(c) == [c EXCEPT !.pc = "raised", !.capture_failed = TRUE]

\* A body action raised: the exception leaves the Loop as well.
RaiseFromBody(c) == [c EXCEPT !.pc = "raised", !.body_failed = TRUE]

Ended(c) == c.pc \in {"returned", "raised"}

\* class ActionType(str, Enum)
ActionTypes ==
    {"macro", "tap", "swipe", "wait", "screenshot", "conditional", "loop",
     "typing", "restart", "counter"}

\* A validation that accepts any timeout of a Tap.
validate_action_config_any_timeout(a) ==
    /\ "type" \in DOMAIN a /\ a.type \notin {None, ""}
    /\ a.type \in ActionTypes
    /\ a.type = "macro" => "name" \in DOMAIN a
    /\ a.type = "tap" => "template" \in DOMAIN a
    /\ a.type = "swipe"
       => /\ "start_template" \in DOMAIN a \/ "start_coordinates" \in DOMAIN a
          /\ "end_template" \in DOMAIN a \/ "end_coordinates" \in DOMAIN a
    /\ a.type = "wait" => "duration" \in DOMAIN a
    /\ a.type = "conditional" => "condition" \in DOMAIN a /\ "if_true" \in DOMAIN a
    /\ a.type = "loop" => "actions" \in DOMAIN a
    /\ a.type = "typing" => "text" \in DOMAIN a

\* validate_action_config(action) reports no error: the action has a type,
\* one of ActionType, and the fields its type requires; a Tap's timeout,
\* when given, is a positive number. (Likelihoods and the delays of a
\* Restart, which the validation also looks at, are not part of the
\* actions followed here.)
validate_action_config(a) ==
    /\ "type" \in DOMAIN a /\ a.type \notin {None, ""}
    /\ a.type \in ActionTypes
    /\ a.type = "macro" => "name" \in DOMAIN a
    /\ a.type = "tap"
       => /\ "template" \in DOMAIN a
          /\ Get(a, "timeout", NoTimeout) # NoTimeout => a.timeout[1] > 0
    /\ a.type = "swipe"
       => /\ "start_template" \in DOMAIN a \/ "start_coordinates" \in DOMAIN a
          /\ "end_template" \in DOMAIN a \/ "end_coordinates" \in DOMAIN a
    /\ a.type = "wait" => "duration" \in DOMAIN a
    /\ a.type = "conditional" => "condition" \in DOMAIN a /\ "if_true" \in DOMAIN a
    /\ a.type = "loop" => "actions" \in DOMAIN a
    /\ a.type = "typing" => "text" \in DOMAIN a

\* A limit test that lets one more iteration pass.
LoopLimitReached_late(a, iteration) ==
    Truthy(a.max_iterations) /\ iteration > a.max_iterations[1]

\* LOOP, "Check max iterations": if max_iterations and iteration >= max_iterations
LoopLimitReached(a, iteration) ==
    Truthy(a.max_iterations) /\ iteration >= a.max_iterations[1]

\* LOOP, "Check timeout": if timeout and time.time() - start_time > timeout
LoopTimedOut(c, t) == Truthy(c.action.timeout) /\ t - c.start_time > c.action.timeout[1]

\* An exit condition whose detection does not end the Loop.
ExitConditionBreaks_ignored(a, frame_for_check, exit_condition_met) == FALSE

\* LOOP, "Check exit condition": if condition: ... if check_screenshot is not
\* None: ... if exit_condition_met: break
ExitConditionBreaks(a, frame_for_check, exit_condition_met) ==
    a.condition # None /\ frame_for_check /\ exit_condition_met

\* LOOP: the head of one pass of "while True" for the inputs given: the
\* frame of single-screenshot mode, the exit condition.
LoopHeadOutcome(c, loop_screenshot, check_screenshot, exit_condition_met, raised) ==
    LET a == c.action
    IN  IF a.use_single_screenshot /\ ~loop_screenshot
        THEN IF raised THEN Raise([c EXCEPT !.captures = @ + 1])
             ELSE [Return(c, FALSE) EXCEPT !.captures = @ + 1, !.capture_failed = TRUE]
        ELSE IF ~a.use_single_screenshot /\ a.condition # None /\ ~check_screenshot /\ raised
        THEN Raise([c EXCEPT !.captures = @ + 1])
        ELSE LET captured == IF a.use_single_screenshot \/ a.condition # None
                             THEN [c EXCEPT !.captures = @ + 1] ELSE c
                 frame_for_check == IF a.use_single_screenshot THEN loop_screenshot
                                    ELSE check_screenshot
                 checked == [captured EXCEPT !.exit_condition_met =
                                a.condition # None /\ frame_for_check /\ exit_condition_met]
             IN  IF ExitConditionBreaks(a, frame_for_check, exit_condition_met)
                 THEN Return(checked, TRUE)
                 ELSE [checked EXCEPT !.pc = "loop_body", !.k = 0]

\* LOOP: what the head of one pass of "while True" can make of the call c
\* at time t: the limit, the timeout, then LoopHeadOutcome.
LoopHeadSteps(c, t) ==
    IF LoopLimitReached(c.action, c.iteration) \/ LoopTimedOut(c, t)
    THEN {Return(c, TRUE)}
    ELSE IF c.iteration > MaxIterations THEN {}
    ELSE {LoopHeadOutcome(c, loop_screenshot, check_screenshot, exit_condition_met, raised) :
             loop_screenshot \in BOOLEAN, check_screenshot \in BOOLEAN,
             exit_condition_met \in BOOLEAN, raised \in BOOLEAN}

\* A restore that forgets to delete the attribute.
RestoredScreenshot_left_pinned(original_screenshot, loop_screenshot) ==
    IF original_screenshot # NoFrame THEN original_screenshot ELSE loop_screenshot

\* LOOP, the finally clause around a body action: self._current_screenshot
\* is set back to original_screenshot, or deleted when that is None.
RestoredScreenshot(original_screenshot, loop_screenshot) ==
    IF original_screenshot # NoFrame THEN original_screenshot ELSE NoFrame

\* LOOP: what "for action in actions" and the end of the pass can make of
\* the call c at time t while self._current_screenshot is pin: pairs of the
\* call and the attribute afterwards. A Macro of the body runs within the
\* step; a Tap or a Loop of the body becomes the call c.inner, and the step
\* that follows its end is the rest of the try statement.
LoopBodySteps(c, pin, t) ==
    LET a == c.action
        pinning == a.use_single_screenshot
    IN  IF c.inner # NoCall
        THEN IF ~Ended(c.inner) THEN {}
             ELSE LET after == [c EXCEPT !.inner = NoCall]
                      restored == IF pinning
                                  THEN RestoredScreenshot(c.original_screenshot, LoopFrame(c.depth))
                                  ELSE pin
                  IN  {[c |-> IF c.inner.pc = "raised" THEN RaiseFromBody(after)
                              ELSE IF ~c.inner.result
                              THEN [Return(after, FALSE) EXCEPT !.body_failed = TRUE]
                              ELSE [after EXCEPT !.k = @ + 1],
                        pin |-> restored]}
        ELSE IF c.k < Len(a.actions)
        THEN IF LoopTimedOut(c, t)
             THEN \* break out of the action loop and then the main loop
                  {[c |-> Return(c, TRUE), pin |-> pin]}
             ELSE LET action == a.actions[c.k + 1]
                  IN  IF action.type = "macro"
                      THEN LET restored == IF pinning
                                           THEN RestoredScreenshot(pin, LoopFrame(c.depth))
                                           ELSE pin
                           IN  {[c |-> [c EXCEPT !.k = @ + 1], pin |-> restored],
                                [c |-> [Return(c, FALSE) EXCEPT !.body_failed = TRUE],
                                 pin |-> restored],
                                [c |-> RaiseFromBody(c), pin |-> restored]}
                      ELSE LET pinned_now == IF pinning THEN LoopFrame(c.depth) ELSE pin
                               begun == [NewCall(action, pinning, pinned_now # NoFrame, t)
                                            EXCEPT !.depth = c.depth + 1]
                           IN  {[c |-> [c EXCEPT !.inner = begun,
                                                 !.original_screenshot = pin],
                                 pin |-> pinned_now]}
        ELSE IF LoopTimedOut(c, t)
             THEN {[c |-> [Return(c, TRUE) EXCEPT !.passes = @ + 1], pin |-> pin]}
             ELSE {[c |-> [c EXCEPT !.pc = "loop_head", !.passes = @ + 1,
                                    !.iteration = @ + 1],
                    pin |-> pin]}

\* A Tap that reports failure when its timeout has passed.
TapTimedOutResult_fail_closed == FALSE

\* TAP, the else clause of the retry loop: "Tap timeout reached, log and
\* continue (don't fail the action)": success = True
TapTimedOutResult == TRUE

\* execute_tap(template, ..., screenshot) on the frame of the given source:
\* detect the template; on a match tap the device; the call's locals after.
ExecuteTap(c, frame, detected, tap_success) ==
    LET tried == [c EXCEPT !.detections = @ + 1, !.frame = frame]
    IN  IF ~detected THEN tried
        ELSE [tried EXCEPT !.matched = TRUE, !.taps = @ + 1]

\* TAP for the inputs given: with a timeout, one pass of "while time.time()
\* - tap_start_time < timeout" (a fresh frame, then execute_tap on it) or
\* its else clause; without, one execute_tap on the frame passed, else the
\* pinned frame, else a new capture.
TapOutcome(c, t, fresh_screenshot, raised, detected, tap_success) ==
    LET a == c.action
    IN  IF ~validate_action_config(a)
        THEN Return(c, FALSE)
        ELSE IF a.timeout # NoTimeout
        THEN IF t - c.start_time < a.timeout[1]
             THEN LET begun == [c EXCEPT !.attempts = @ + 1, !.captures = @ + 1]
                  IN  IF ~fresh_screenshot
                      THEN IF raised THEN Raise(begun) ELSE begun
                      ELSE LET done == ExecuteTap(begun, "captured", detected, tap_success)
                           IN  IF detected /\ tap_success THEN Return(done, TRUE) ELSE done
             ELSE Return(c, TapTimedOutResult)
        ELSE LET frame == IF c.screenshot THEN "passed"
                          ELSE IF c.pinned THEN "pinned"
                          ELSE IF fresh_screenshot THEN "captured" ELSE "none"
                 begun == IF ~c.screenshot /\ ~c.pinned
                          THEN [c EXCEPT !.captures = @ + 1] ELSE c
             IN  IF frame = "none"
                 THEN IF raised THEN Raise(begun) ELSE Return(begun, FALSE)
                 ELSE Return(ExecuteTap(begun, frame, detected, tap_success),
                             detected /\ tap_success)

\* TAP: what one step can make of the call c at time t. Retries between two
\* readings of the clock are followed up to MaxAttempts.
TapSteps(c, t) ==
    IF /\ validate_action_config(c.action)
       /\ c.action.timeout # NoTimeout
       /\ t - c.start_time < c.action.timeout[1]
       /\ c.attempts >= MaxAttempts
    THEN {}
    ELSE {TapOutcome(c, t, fresh_screenshot, raised, detected, tap_success) :
             fresh_screenshot \in BOOLEAN, raised \in BOOLEAN,
             detected \in BOOLEAN, tap_success \in BOOLEAN}

\* The call in progress is the body action of the Loop in call.
InBody == call.inner # NoCall /\ ~Ended(call.inner)

\* LOOP: the head of one pass of "while True", of the Loop called or of a
\* Loop of its body.
CallLoopHead ==
    /\ call # NoCall
    /\ UNCHANGED <<game_name, speed_multiplier, device_list, now, instances, heap, tick, wd, engine, resume_file, detected_coordinates, webhook>>
    /\ IF InBody
       THEN /\ call.inner.pc = "loop_head"
            /\ \E c \in LoopHeadSteps(call.inner, now) : call' = [call EXCEPT !.inner = c]
       ELSE /\ call.pc = "loop_head"
            /\ call' \in LoopHeadSteps(call, now)

\* LOOP: "for action in actions" of one pass, one body action per step, and
\* the end of the pass, of the Loop called or of a Loop of its body.
CallLoopBody ==
    /\ call # NoCall
    /\ UNCHANGED <<game_name, speed_multiplier, device_list, now, instances, heap, tick, wd, engine, resume_file, detected_coordinates, webhook>>
    /\ IF InBody
       THEN /\ call.inner.pc = "loop_body"
            /\ \E s \in LoopBodySteps(call.inner, call.current_screenshot, now) :
                 call' = [call EXCEPT !.inner = s.c, !.current_screenshot = s.pin]
       ELSE /\ call.pc = "loop_body"
            /\ \E s \in LoopBodySteps(call, call.current_screenshot, now) :
                 call' = [s.c EXCEPT !.current_screenshot = s.pin]

\* TAP: one step of the Tap called or of a Tap of the body of the Loop called.
CallTap ==
    /\ call # NoCall
    /\ UNCHANGED <<game_name, speed_multiplier, device_list, now, instances, heap, tick, wd, engine, resume_file, detected_coordinates, webhook>>
    /\ IF InBody
       THEN /\ call.inner.pc = "tap"
            /\ \E c \in TapSteps(call.inner, now) : call' = [call EXCEPT !.inner = c]
       ELSE /\ call.pc = "tap"
            /\ call' \in TapSteps(call, now)

\* ------------------------------------------------------------ specification
\* One run of the engine, from start() to its return: the control loop, the
\* tick thread and the watchdog thread of every instance, the clock.
Next ==
    \/ EngineStart
    \/ EngineAllStopped
    \/ EngineStop
    \/ EngineFinalize
    \/ ClockAdvance
    \/ \E n \in 1..max_instances : WdCheck(n)
    \/ \E n \in 1..max_instances : WdHandle(n)
    \/ \E n \in 1..max_instances : WdRestartDone(n)
    \/ \E n \in 1..max_instances : TickBegin(n)
    \/ \E n \in 1..max_instances : TickList(n)
    \/ \E n \in 1..max_instances : TickTap(n)
    \/ \E n \in 1..max_instances : TickCond(n)
    \/ \E n \in 1..max_instances : TickIfCond(n)

\* One device running the game "solo".
Spec == Init /\ [][Next]_vars

\* Every thread that can take a step eventually takes one. Nothing is assumed
\* of the operator's key presses or of the clock.
ThreadFairness ==
    \A n \in 1..max_instances :
        /\ WF_vars(TickBegin(n)) /\ WF_vars(TickList(n)) /\ WF_vars(TickTap(n))
        /\ WF_vars(TickCond(n)) /\ WF_vars(TickIfCond(n))
        /\ WF_vars(WdCheck(n))
        /\ WF_vars(WdHandle(n)) /\ WF_vars(WdRestartDone(n))

FairSpec == Init /\ [][Next]_vars /\ ThreadFairness

\* Two devices running the game "fleet", whose states have no timeout and no
\* conditional (so the watchdog never fires and the clock is not read), with
\* the periodic snapshot, the completion check and restarts of the program
\* that resume from resume.json.
InitFleet ==
    /\ game_name = "fleet"
    /\ speed_multiplier = <<1, 1>>
    /\ device_list = <<"devA", "devB">>
    /\ InitCommon

FleetNext ==
    \/ EngineStart
    \/ EngineAllStopped
    \/ EngineWriteStatus
    \/ EngineSaveState
    \/ EngineCheckCompletion
    \/ EngineStop
    \/ EngineFinalize
    \/ ProcessKilled
    \/ ProcessKilledInSave
    \/ ProcessRestart
    \/ \E n \in 1..max_instances : WdCheck(n)
    \/ \E n \in 1..max_instances : TickBegin(n)
    \/ \E n \in 1..max_instances : TickList(n)

FleetSpec == InitFleet /\ [][FleetNext]_vars

\* Two devices running the game "duo", whose one state has no timeout (so
\* the watchdog never fires and the clock is not read): one engine run, the
\* two tick threads tapping the same button through the one ImageDetector.
InitDuo ==
    /\ game_name = "duo"
    /\ speed_multiplier = <<1, 1>>
    /\ device_list = <<"devA", "devB">>
    /\ InitCommon

DuoNext ==
    \/ EngineStart
    \/ EngineStop
    \/ EngineFinalize
    \/ \E n \in 1..max_instances : WdCheck(n)
    \/ \E n \in 1..max_instances : TickBegin(n)
    \/ \E n \in 1..max_instances : TickList(n)
    \/ \E n \in 1..max_instances : TickTap(n)

DuoSpec == InitDuo /\ [][DuoNext]_vars

\* One call of execute_action for a Loop or a Tap action, from any of the
\* argument combinations, with the clock advancing while it runs.
InitAction ==
    /\ game_name = "solo"
    /\ speed_multiplier = <<1, 1>>
    /\ device_list = <<"devA">>
    /\ now = 0
    /\ instances = <<>>
    /\ heap = [r \in ListRefs |-> <<>>]
    /\ tick = <<>>
    /\ wd = <<>>
    /\ engine = [pc |-> "created", running |-> TRUE, run |-> 1, after_stop |-> FALSE,
                 cleaned |-> FALSE]
    /\ resume_file = NoFile
    /\ detected_coordinates = EmptyCoordinates
    /\ webhook = <<>>
    /\ \E action \in LoopActions \cup TapActions, screenshot \in BOOLEAN, pinned \in BOOLEAN :
         call = NewCall(action, screenshot, pinned, now)

ActionNext ==
    \/ CallLoopHead
    \/ CallLoopBody
    \/ CallTap
    \/ ClockAdvance

ActionSpec == InitAction /\ [][ActionNext]_vars

\* ------------------------------------------------------------ conditional, wait
\* One call execute_action(action_config, screenshot) of a Conditional or a
\* Wait, followed on its own. The clock is kept as the call reads it:
\* elapsed is time.time() - start_time, action_elapsed is time.time() -
\* action_start_time, both followed up to Horizon, beyond every timeout.
Horizon == 2 * ClockStep

\* WAIT: "timeout or 60"
DefaultWaitTimeout == 60

\* The action lists a branch of a Conditional can hold: Taps without and
\* with a timeout of their own.
Branches ==
    {<<>>, <<BodyTap>>, <<TimedBodyTap>>, <<BodyTap, BodyTap>>, <<BodyTap, TimedBodyTap>>}

\* create_conditional_action(condition, if_true, if_false=None, timeout=None,
\* if_true_state=None, if_false_state=None)
ConditionalActions ==
    {[type |-> "conditional", condition |-> "gate_icon", if_true |-> a,
      if_false |-> b, timeout |-> t, if_true_state |-> s, if_false_state |-> None] :
        a \in Branches, b \in {<<>>, <<BodyTap>>},
        t \in {NoTimeout, <<0>>, <<ClockStep>>},
        s \in {None, "finish"}}

\* create_wait_action(duration, condition=None, timeout=None)
WaitActions ==
    {[type |-> "wait", duration |-> 1, condition |-> c, timeout |-> t] :
        c \in {None, "ready_icon"}, t \in {NoTimeout, <<ClockStep>>}}

\* The call as execute_action begins: screenshot tells whether a frame was
\* passed (as the action list of a state does). outcomes keeps, for every
\* branch action the Conditional has left, how it left it.
NewPoll(action, screenshot) ==
    [action |-> action, screenshot |-> screenshot,
     pc |-> IF action.type = "wait" THEN "wait" ELSE "cond_check",
     result |-> FALSE,
     elapsed |-> 0, action_elapsed |-> 0,
     checked |-> FALSE, condition_met |-> FALSE,
     actions_to_execute |-> <<>>, target_state |-> None,
     i |-> 0, action_success |-> FALSE,
     successful_actions |-> 0, failed_actions |-> 0, outcomes |-> <<>>,
     polls |-> 0, captures |-> 0, frame |-> "none",
     capture_failed |-> FALSE, state_changed |-> FALSE]

\* The readings of the clock after d more seconds.
Elapse(c, d) ==
    [c EXCEPT !.elapsed = IF @ + d > Horizon THEN Horizon ELSE @ + d,
              !.action_elapsed = IF @ + d > Horizon THEN Horizon ELSE @ + d]

\* The time a step of the call can take: less than a step of the clock, or
\* one.
Durations == {0, ClockStep}

\* One more, among the counts the model follows.
Counted(k) == IF k < MaxAttempts THEN k + 1 ELSE k

\* A Conditional that reports success only when every branch action did.
ConditionalResult_all(successful_actions, actions_to_execute) ==
    successful_actions = Len(actions_to_execute)

\* CONDITIONAL: action_success = successful_actions > 0 or
\* len(actions_to_execute) == 0
ConditionalResult(successful_actions, actions_to_execute) ==
    successful_actions > 0 \/ Len(actions_to_execute) = 0

\* CONDITIONAL, "if timeout and time.time() - start_time > timeout"
OverallTimedOut(c) ==
    Truthy(c.action.timeout) /\ c.elapsed > c.action.timeout[1]

\* CONDITIONAL, the two tests at the head of "while not action_success": the
\* overall timeout, then the timeout of the branch action itself.
ActionTimedOut(c) ==
    \/ OverallTimedOut(c)
    \/ LET action_timeout == c.actions_to_execute[c.i].timeout
       IN  Truthy(action_timeout) /\ c.action_elapsed > action_timeout[1]

\* CONDITIONAL, the condition check: the frame passed or a new capture, the
\* branch and the target state the detection selects, start_time.
CondCheckOutcome(c, fresh_screenshot, raised, condition_met) ==
    LET a == c.action
        begun == IF c.screenshot THEN [c EXCEPT !.frame = "passed"]
                 ELSE [c EXCEPT !.captures = Counted(@),
                                !.frame = IF fresh_screenshot THEN "captured" ELSE "none"]
    IN  IF begun.frame = "none"
        THEN IF raised THEN Raise(begun) ELSE Return(begun, FALSE)
        ELSE [begun EXCEPT !.checked = TRUE,
                           !.condition_met = condition_met,
                           !.actions_to_execute = IF condition_met THEN a.if_true ELSE a.if_false,
                           !.target_state = IF condition_met THEN a.if_true_state
                                            ELSE a.if_false_state,
                           !.elapsed = 0,
                           !.i = 1,
                           !.pc = "cond_for"]

\* CONDITIONAL, after the for loop: the result, and the jump to the target
\* state the branch names (change_state, then return True).
CondFinish(c) ==
    LET action_success == ConditionalResult(c.successful_actions, c.actions_to_execute)
    IN  IF c.target_state # None
        THEN Return([c EXCEPT !.state_changed = TRUE], TRUE)
        ELSE Return(c, action_success)

\* CONDITIONAL, the head of one pass of "for i, action in enumerate(
\* actions_to_execute)": the list is done or the overall timeout has passed,
\* else the retry loop of the action begins.
CondForOutcome(c) ==
    IF c.i > Len(c.actions_to_execute) \/ OverallTimedOut(c)
    THEN CondFinish(c)
    ELSE [c EXCEPT !.action_success = FALSE, !.action_elapsed = 0, !.pc = "cond_while"]

\* CONDITIONAL, the head of one pass of "while not action_success": a timeout
\* has passed (break, the action has failed, the next action), else one more
\* attempt.
CondWhileOutcome(c) ==
    IF ActionTimedOut(c)
    THEN [c EXCEPT !.failed_actions = Counted(@),
                   !.outcomes = Append(@, "exhausted"),
                   !.i = @ + 1,
                   !.pc = "cond_for"]
    ELSE [c EXCEPT !.pc = "cond_attempt"]

\* execute_action(action, fresh_screenshot) of a branch action: a Tap
\* without a timeout taps the template detected in the frame passed; a Tap
\* with a timeout retries on frames of its own and reports success when
\* its timeout passes.
BranchActionResult(action, detected, tap_success) ==
    IF action.timeout = NoTimeout THEN detected /\ tap_success
    ELSE (detected /\ tap_success) \/ TapTimedOutResult

\* CONDITIONAL, one attempt of the branch action: a fresh frame (none: sleep
\* and retry), execute_action on it, the count of the success or the sleep
\* before the retry; d is the time the attempt took.
CondAttemptOutcome(c, fresh_screenshot, raised, detected, tap_success, d) ==
    LET action == c.actions_to_execute[c.i]
        begun == [c EXCEPT !.captures = Counted(@), !.polls = Counted(@)]
    IN  IF ~fresh_screenshot
        THEN IF raised THEN Raise(begun)
             ELSE Elapse([begun EXCEPT !.frame = "none", !.pc = "cond_while"], d)
        ELSE IF action.timeout # NoTimeout /\ raised
        THEN Raise(begun)
        ELSE IF BranchActionResult(action, detected, tap_success)
        THEN Elapse([begun EXCEPT !.frame = "captured",
                                  !.action_success = TRUE,
                                  !.successful_actions = Counted(@),
                                  !.outcomes = Append(@, "succeeded"),
                                  !.i = @ + 1,
                                  !.pc = "cond_for"], d)
        ELSE Elapse([begun EXCEPT !.frame = "captured", !.pc = "cond_while"], d)

\* WAIT: the timeout the polling runs under
WaitTimeout(a) == IF Truthy(a.timeout) THEN a.timeout[1] ELSE DefaultWaitTimeout

\* WAIT: without a condition, sleep(duration) and return True; with one, a
\* pass of "while time.time() - start_time < (timeout or 60)", which looks
\* for the template in the frame passed, else in a new capture, or the
\* return False after the loop; d is the time the pass took.
WaitOutcome(c, fresh_screenshot, raised, detected, d) ==
    LET a == c.action
    IN  IF a.condition = None
        THEN Return(Elapse(c, d), TRUE)
        ELSE IF c.elapsed < WaitTimeout(a)
        THEN LET begun == IF c.screenshot
                          THEN [c EXCEPT !.polls = Counted(@), !.frame = "passed"]
                          ELSE [c EXCEPT !.polls = Counted(@), !.captures = Counted(@),
                                         !.frame = IF fresh_screenshot THEN "captured"
                                                   ELSE "none"]
             IN  IF begun.frame = "none"
                 THEN IF raised THEN Raise(begun) ELSE Elapse(begun, d)
                 ELSE IF detected THEN Return(begun, TRUE)
                 ELSE Elapse(begun, d)
        ELSE Return(c, FALSE)

CallCondCheck ==
    /\ call # NoCall
    /\ call.pc = "cond_check"
    /\ \E fresh_screenshot \in BOOLEAN, raised \in BOOLEAN, condition_met \in BOOLEAN :
         call' = CondCheckOutcome(call, fresh_screenshot, raised, condition_met)
    /\ UNCHANGED <<game_name, speed_multiplier, device_list, now, instances, heap, tick, wd, engine, resume_file, detected_coordinates, webhook>>

CallCondFor ==
    /\ call # NoCall
    /\ call.pc = "cond_for"
    /\ call' = CondForOutcome(call)
    /\ UNCHANGED <<game_name, speed_multiplier, device_list, now, instances, heap, tick, wd, engine, resume_file, detected_coordinates, webhook>>

CallCondWhile ==
    /\ call # NoCall
    /\ call.pc = "cond_while"
    /\ call' = CondWhileOutcome(call)
    /\ UNCHANGED <<game_name, speed_multiplier, device_list, now, instances, heap, tick, wd, engine, resume_file, detected_coordinates, webhook>>

CallCondAttempt ==
    /\ call # NoCall
    /\ call.pc = "cond_attempt"
    /\ \E fresh_screenshot \in BOOLEAN, raised \in BOOLEAN, detected \in BOOLEAN,
          tap_success \in BOOLEAN, d \in Durations :
         call' = CondAttemptOutcome(call, fresh_screenshot, raised, detected, tap_success, d)
    /\ UNCHANGED <<game_name, speed_multiplier, device_list, now, instances, heap, tick, wd, engine, resume_file, detected_coordinates, webhook>>

CallWait ==
    /\ call # NoCall
    /\ call.pc = "wait"
    /\ \E fresh_screenshot \in BOOLEAN, raised \in BOOLEAN, detected \in BOOLEAN,
          d \in Durations :
         call' = WaitOutcome(call, fresh_screenshot, raised, detected, d)
    /\ UNCHANGED <<game_name, speed_multiplier, device_list, now, instances, heap, tick, wd, engine, resume_file, detected_coordinates, webhook>>

\* One call of execute_action for a Conditional or a Wait action, with a
\* frame passed or not.
InitPoll ==
    /\ game_name = "solo"
    /\ speed_multiplier = <<1, 1>>
    /\ device_list = <<"devA">>
    /\ now = 0
    /\ instances = <<>>
    /\ heap = [r \in ListRefs |-> <<>>]
    /\ tick = <<>>
    /\ wd = <<>>
    /\ engine = [pc |-> "created", running |-> TRUE, run |-> 1, after_stop |-> FALSE,
                 cleaned |-> FALSE]
    /\ resume_file = NoFile
    /\ detected_coordinates = EmptyCoordinates
    /\ webhook = <<>>
    /\ \E action \in ConditionalActions \cup WaitActions, screenshot \in BOOLEAN :
         call = NewPoll(action, screenshot)

PollNext ==
    \/ CallCondCheck
    \/ CallCondFor
    \/ CallCondWhile
    \/ CallCondAttempt
    \/ CallWait

PollSpec == InitPoll /\ [][PollNext]_vars

\* The call goes on while it can, and its attempts and polls take time: a
\* failed attempt sleeps 0.1 s before the next, a capture and a detection
\* are not instantaneous.
TimePasses == call'.elapsed > call.elapsed \/ call'.action_elapsed > call.action_elapsed

PollFairness ==
    /\ WF_vars(CallCondCheck)
    /\ WF_vars(CallCondFor)
    /\ WF_vars(CallCondWhile)
    /\ WF_vars(CallCondAttempt)
    /\ SF_vars(CallCondAttempt /\ TimePasses)
    /\ WF_vars(CallWait /\ (TimePasses \/ Ended(call')))

FairPollSpec == PollSpec /\ PollFairness

\* ------------------------------------------------------------ a Loop in an action list
\* ticks of the list loop that the model follows for one entry
MaxTicks == 2

\* run_automation, the action list: the index written behind an entry that
\* succeeded.
IndexAfterEntry_advanced(i, success) == i + 1

\* run_automation, the action list: "if not self.execute_action(action,
\* screenshot): action_success = False; break" leaves current_action_index
\* alone, "else: self.current_action_index = i + 1".
IndexAfterEntry(i, success) == IF success THEN i + 1 ELSE i

\* The call execute_action(actions[i], screenshot) the list loop makes for
\* the entry at current_action_index = i, a Loop, with the tick's frame.
\* body_failed_before tells whether the call of the tick before ended on a
\* failed body action.
ListEntryCall(action, i, ticks, body_failed_before, t) ==
    NewCall(action, TRUE, FALSE, t)
        @@ [current_action_index |-> i, entry |-> i, ticks |-> ticks, done |-> FALSE,
            body_failed_before |-> body_failed_before]

\* run_automation, the action list, as the call of the entry returns: on
\* failure the for loop is left and the next tick starts at
\* current_action_index again, calling execute_action for that entry anew;
\* on success the index moves behind the entry.
ListEntryReturns ==
    /\ call # NoCall
    /\ call.pc = "returned"
    /\ ~call.done
    /\ LET i == IndexAfterEntry(call.entry, call.result)
       IN  IF i = call.entry /\ call.ticks < MaxTicks
           THEN call' = ListEntryCall(call.action, i, call.ticks + 1, call.body_failed, now)
           ELSE call' = [call EXCEPT !.current_action_index = i, !.done = TRUE]
    /\ UNCHANGED <<game_name, speed_multiplier, device_list, now, instances, heap, tick, wd, engine, resume_file, detected_coordinates, webhook>>

\* One Loop entry of a state's action list, at the first or the second
\* position, from its first execution on.
InitEntry ==
    /\ game_name = "solo"
    /\ speed_multiplier = <<1, 1>>
    /\ device_list = <<"devA">>
    /\ now = 0
    /\ instances = <<>>
    /\ heap = [r \in ListRefs |-> <<>>]
    /\ tick = <<>>
    /\ wd = <<>>
    /\ engine = [pc |-> "created", running |-> TRUE, run |-> 1, after_stop |-> FALSE,
                 cleaned |-> FALSE]
    /\ resume_file = NoFile
    /\ detected_coordinates = EmptyCoordinates
    /\ webhook = <<>>
    /\ \E action \in LoopActions, i \in 0..1 : call = ListEntryCall(action, i, 1, FALSE, now)

EntryNext ==
    \/ CallLoopHead
    \/ CallLoopBody
    \/ CallTap
    \/ ClockAdvance
    \/ ListEntryReturns

EntrySpec == InitEntry /\ [][EntryNext]_vars

\* ------------------------------------------------------------ validation
\* Action configurations validate_action_config reports an error for: no
\* type, an empty type, a type that is no ActionType, a required field
\* missing, a Tap timeout that is not positive.
InvalidActions ==
    {[template |-> "button"],
     [type |-> "", template |-> "button"],
     [type |-> "drag", template |-> "button"],
     [type |-> "macro"],
     [type |-> "tap", timeout |-> NoTimeout],
     [type |-> "tap", template |-> "button", timeout |-> <<0>>],
     [type |-> "swipe", end_template |-> "button"],
     [type |-> "swipe", start_template |-> "button"],
     [type |-> "wait", condition |-> "ready_icon", timeout |-> NoTimeout],
     [type |-> "conditional", if_true |-> <<BodyTap>>, if_false |-> <<>>],
     [type |-> "conditional", condition |-> "gate_icon"],
     [type |-> "loop", max_iterations |-> <<1>>],
     [type |-> "typing"]}

\* execute_action(action_config, screenshot) as it is called, before its
\* first statement.
EnteredCall(action, screenshot, pinned) ==
    [action |-> action, screenshot |-> screenshot, pinned |-> pinned,
     pc |-> "entry", result |-> FALSE,
     captures |-> 0, detections |-> 0, taps |-> 0, inner |-> NoCall]

\* Swipe actions that pass the validation: each end a template, explicit
\* coordinates, or both.
SwipeActions ==
    {[type |-> "swipe", start_template |-> "button", end_coordinates |-> <<10, 20>>],
     [type |-> "swipe", start_coordinates |-> <<10, 20>>, end_template |-> "button"],
     [type |-> "swipe", start_template |-> "button", end_template |-> "button"],
     [type |-> "swipe", start_coordinates |-> <<10, 20>>, end_coordinates |-> <<30, 40>>],
     [type |-> "swipe", start_template |-> "button", start_coordinates |-> <<10, 20>>,
      end_coordinates |-> <<30, 40>>]}

\* Where the centre of the template 'button' can be on the screen.
Points == {<<0, 0>>, <<40, 60>>, <<100, 100>>}

\* The call of a Swipe at its branch: centre is where the template is on
\* the device's screen, drags the drag commands sent to the device.
SwipeCall(c, t) ==
    [NewCall(c.action, c.screenshot, c.pinned, t) EXCEPT !.pc = "swipe"]
        @@ [centre |-> c.centre, drags |-> <<>>]

\* execute_action, "Validate action configuration": with errors, print
\* them and return False; without, the branch of the action's type.
CallEntry ==
    /\ call # NoCall
    /\ call.pc = "entry"
    /\ call' = IF ~validate_action_config(call.action)
               THEN Return(call, FALSE)
               ELSE IF call.action.type = "swipe"
               THEN SwipeCall(call, now)
               ELSE NewCall(call.action, call.screenshot, call.pinned, now)
    /\ UNCHANGED <<game_name, speed_multiplier, device_list, now, instances, heap, tick, wd, engine, resume_file, detected_coordinates, webhook>>

\* SWIPE, "Extract coordinates from tuples or use defaults": the start of
\* the drag.
SwipeStart(a) ==
    IF "start_coordinates" \in DOMAIN a THEN a.start_coordinates ELSE <<0, 0>>

\* SWIPE: the end of the drag.
SwipeEnd(a) ==
    IF "end_coordinates" \in DOMAIN a THEN a.end_coordinates ELSE <<100, 100>>

\* SWIPE: success = self.device_manager.swipe(device_id, start_x, start_y,
\* end_x, end_y, duration); return success.
CallSwipe ==
    /\ call # NoCall
    /\ call.pc = "swipe"
    /\ \E success \in BOOLEAN :
         call' = Return([call EXCEPT !.drags = Append(@, <<SwipeStart(call.action),
                                                          SwipeEnd(call.action)>>)],
                        success)
    /\ UNCHANGED <<game_name, speed_multiplier, device_list, now, instances, heap, tick, wd, engine, resume_file, detected_coordinates, webhook>>

\* One call of execute_action, for an action configuration that fails the
\* validation or for a Tap or a Loop that passes it.
InitValidate ==
    /\ game_name = "solo"
    /\ speed_multiplier = <<1, 1>>
    /\ device_list = <<"devA">>
    /\ now = 0
    /\ instances = <<>>
    /\ heap = [r \in ListRefs |-> <<>>]
    /\ tick = <<>>
    /\ wd = <<>>
    /\ engine = [pc |-> "created", running |-> TRUE, run |-> 1, after_stop |-> FALSE,
                 cleaned |-> FALSE]
    /\ resume_file = NoFile
    /\ detected_coordinates = EmptyCoordinates
    /\ webhook = <<>>
    /\ \/ \E action \in InvalidActions \cup TapActions \cup LoopActions,
             screenshot \in BOOLEAN, pinned \in BOOLEAN :
            call = EnteredCall(action, screenshot, pinned)
       \/ \E swipe \in SwipeActions, screenshot \in BOOLEAN, pinned \in BOOLEAN,
             centre \in Points :
            call = EnteredCall(swipe, screenshot, pinned) @@ [centre |-> centre]

ValidateNext ==
    \/ CallEntry
    \/ CallLoopHead
    \/ CallLoopBody
    \/ CallTap
    \/ CallSwipe
    \/ ClockAdvance

ValidateSpec == InitValidate /\ [][ValidateNext]_vars

\* ------------------------------------------------------------------ properties
\* Shorthands for the fields of instance n the properties speak of.
currentState(n) == instances[n].instance_data.current_state
actionIndex(n) == instances[n].current_action_index
cycleCount(n) == instances[n].instance_data.cycle_count
sessionCount(n) == instances[n].instance_data.session_count
detectedItems(n) == heap[instances[n].instance_data.detected_items]
accountId(n) == instances[n].instance_data.account_id
timeInState(n) == now - instances[n].current_state_start_time

\* The step is one of the tick thread of instance n.
TickThreadStep(n) ==
    /\ n \in Instances
    /\ DOMAIN instances' = DOMAIN instances
    /\ wd' = wd /\ engine' = engine /\ now' = now
    /\ tick'[n] # tick[n] \/ instances'[n] # instances[n]

\* The step is one of the watchdog thread of instance n.
WatchdogStep(n) ==
    /\ n \in Instances
    /\ DOMAIN wd' = DOMAIN wd
    /\ wd'[n] # wd[n]

\* The step ends a tick of instance n.
TickEnds(n) == TickThreadStep(n) /\ tick'[n].pc = "loop"

\* The state instance n was in when the tick it is executing began.
TickStartState(n) == IF tick[n].pc = "loop" THEN currentState(n) ELSE tick[n].state

\* --- C1
\* C1 as claimed: whenever a tick ends in another state than it began in,
\* whatever changed the state, actionIndex is 0.
C1_IndexZeroAfterStateChange ==
    [][\A n \in 1..max_instances :
          TickEnds(n) /\ currentState(n)' # TickStartState(n)
              => actionIndex(n)' = 0]_vars

\* --- C2
\* The step is the failure of an entry of the list (a plain entry, or a
\* Conditional that reports failure), which ends the tick.
ListEntryFails(n) ==
    /\ TickEnds(n)
    /\ \/ tick[n].pc = "cond"
       \/ tick[n].pc = "tap"
       \/ /\ tick[n].pc = "list"
          /\ tick[n].i < Len(ListOf(AutomationStates[tick[n].state], tick[n].kind))

\* C2 as claimed: when entry j of the list is the first to fail, the tick
\* ends with actionIndex = j in the state the list belongs to, and actionIndex
\* never decreases while the list executes.
C2_FailedEntryKeepsPosition ==
    [][\A n \in 1..max_instances :
          /\ ListEntryFails(n)
                => actionIndex(n)' = tick[n].i /\ currentState(n)' = tick[n].state
          /\ TickThreadStep(n) /\ tick[n].pc \in {"list", "cond"} /\ tick'[n].pc \in {"list", "cond"}
                => actionIndex(n)' >= actionIndex(n)]_vars

\* --- C3
\* The timeout entry of the state's config as the claim reads it: absent
\* means no timeout.
ClaimedTimeout(s) ==
    IF s \in DOMAIN AutomationStates /\ "timeout" \in DOMAIN AutomationStates[s]
    THEN AutomationStates[s].timeout ELSE NoTimeout

\* The timeout entry of the state's config, 60 when the config has none.
EffectiveTimeout(s) ==
    IF s \notin DOMAIN AutomationStates THEN NoTimeout
    ELSE IF "timeout" \in DOMAIN AutomationStates[s] THEN AutomationStates[s].timeout
    ELSE <<DefaultStateTimeout>>

WdFires(n) == WatchdogStep(n) /\ wd[n].pc = "check" /\ wd'[n].pc = "handle"
WdJumps(n) == WatchdogStep(n) /\ wd[n].pc = "handle" /\ wd'[n].pc = "check"
WdCallsRestart(n) == WatchdogStep(n) /\ wd[n].pc = "handle" /\ wd'[n].pc = "restart"
WdRestartSucceeds(n) == WatchdogStep(n) /\ wd[n].pc = "restart" /\ wd'[n].pc = "check"
WdRestartFails(n) == WatchdogStep(n) /\ wd[n].pc = "restart" /\ wd'[n].pc = "stopped"

\* The timeout_state the config of state s declares (None when none).
DeclaredTimeoutState(s) ==
    IF s \in DOMAIN AutomationStates /\ "timeout_state" \in DOMAIN AutomationStates[s]
    THEN AutomationStates[s].timeout_state ELSE None

\* C4 as claimed: after the one recovery action of a stall, be it the jump or
\* the app restart, actionIndex is 0.
C4_IndexZeroAfterAnyRecovery ==
    [][\A n \in 1..max_instances :
          WdJumps(n) \/ WdRestartSucceeds(n) \/ WdRestartFails(n)
              => actionIndex(n)' = 0]_vars

\* C4 amended: the watchdog fires only in a state that has exceeded its own
\* timeout; a firing is followed by exactly one recovery action, the jump to
\* the timeout_state or one call of restart_app; after the jump or a restart
\* that succeeded actionIndex is 0 and the state just entered has not
\* exceeded its timeout; a restart that failed stops the instance and leaves
\* actionIndex as it was.
C4_OneRecoveryPerStall ==
    [][\A n \in 1..max_instances :
          /\ WdFires(n) => check_state_timeout(instances[n], now)
          /\ WatchdogStep(n) /\ wd[n].pc = "handle"
                => \/ WdJumps(n) /\ DeclaredTimeoutState(currentState(n)) # None
                   \/ /\ WdCallsRestart(n)
                      /\ DeclaredTimeoutState(currentState(n)) = None
                      /\ instances'[n] = instances[n]
          /\ WatchdogStep(n) /\ wd[n].pc = "restart"
                => WdRestartSucceeds(n) \/ WdRestartFails(n)
          /\ WdJumps(n) \/ WdRestartSucceeds(n)
                => /\ actionIndex(n)' = 0
                   /\ ~check_state_timeout(instances'[n], now')
          /\ WdRestartFails(n)
                => /\ ~instances'[n].running
                   /\ actionIndex(n)' = actionIndex(n)
                   /\ currentState(n)' = currentState(n)]_vars

\* The watchdog has jumped from 'pulling_gacha' to its timeout_state while the
\* tick thread was inside the list of 'pulling_gacha'.
C4_Witness ==
    \E n \in Instances :
        /\ tick[n].pc = "list" /\ tick[n].state = "pulling_gacha"
        /\ wd[n].pc = "check"
        /\ currentState(n) = DeclaredTimeoutState("pulling_gacha")
        /\ actionIndex(n) = 0
        /\ now > 0 /\ timeInState(n) = 0

\* --- C5
\* C5: when handle_timeout runs in a state that declares timeout_state S the
\* instance moves to S and restart_app is not called; otherwise restart_app is
\* called, and when it succeeds the instance is in the initial state with
\* actionIndex 0, cycleCount 0, detectedItems empty, accountId unset and is
\* still running; only a failed restart makes the watchdog stop the instance.
C5_TimeoutRecovery ==
    [][\A n \in 1..max_instances :
          /\ WatchdogStep(n) /\ wd[n].pc = "handle" /\ DeclaredTimeoutState(currentState(n)) # None
                => /\ currentState(n)' = DeclaredTimeoutState(currentState(n))
                   /\ wd'[n].pc = "check"
                   /\ instances'[n].running = instances[n].running
          /\ WatchdogStep(n) /\ wd[n].pc = "handle" /\ DeclaredTimeoutState(currentState(n)) = None
                => wd'[n].pc = "restart"
          /\ WdRestartSucceeds(n)
                => /\ currentState(n)' = get_initial_state
                   /\ actionIndex(n)' = 0
                   /\ cycleCount(n)' = 0
                   /\ detectedItems(n)' = <<>>
                   /\ accountId(n)' = None
                   /\ instances'[n].running = instances[n].running
          /\ WatchdogStep(n) /\ instances[n].running /\ ~instances'[n].running
                => WdRestartFails(n)]_vars

\* The watchdog has restarted the app and reset the instance to the initial
\* state while the tick thread was inside the list of 'gate', a state
\* without timeout_state.
C5_Witness ==
    \E n \in Instances :
        /\ tick[n].pc = "list" /\ tick[n].state = "gate"
        /\ DeclaredTimeoutState("gate") = None
        /\ wd[n].pc = "check"
        /\ currentState(n) = get_initial_state
        /\ actionIndex(n) = 0 /\ cycleCount(n) = 0 /\ detectedItems(n) = <<>>
        /\ instances[n].running
        /\ now > 0 /\ timeInState(n) = 0

\* --- C6
\* C6 as claimed: when create_instances resumes from resume.json, every
\* device whose device_id has an entry in the file gets the current_state,
\* current_action_index, session_count, cycle_count, detected_items and
\* account_id of that entry, whatever the order of the device list.
C6_SnapshotRoundTrip ==
    [][engine.pc = "created" /\ engine'.pc = "control" /\ can_resume(resume_file, game_name)
          => \A i \in DOMAIN instances' : \A k \in DOMAIN resume_file.instances :
                LET saved == resume_file.instances[k]
                IN  json_load_str(saved.device_id) = instances'[i].device_id
                      => /\ currentState(i)' = json_load_str(saved.current_state)
                         /\ actionIndex(i)' = saved.current_action_index
                         /\ sessionCount(i)' = saved.session_count
                         /\ cycleCount(i)' = saved.cycle_count
                         /\ detectedItems(i)' = saved.detected_items
                         /\ accountId(i)' = json_load_str(saved.account_id)]_vars

\* --- C7
\* C7 as claimed: when the branch a Conditional of the list selected names a
\* target state, the jump ends the tick in the target state: no further entry
\* of the list is executed.
C7_JumpEndsTick ==
    [][\A n \in 1..max_instances :
          /\ TickThreadStep(n)
          /\ tick[n].pc = "cond"
          /\ tick[n].j > Len(tick[n].branch)
          /\ tick[n].target_state \notin {None, ""}
          => /\ tick'[n].pc = "loop"
             /\ currentState(n)' = tick[n].target_state]_vars

\* --- C8
\* The config of state s defines a whole-state conditional.
HasIfCondition(s) ==
    /\ s \in DOMAIN AutomationStates
    /\ "if_condition" \in DOMAIN AutomationStates[s]
    /\ AutomationStates[s].if_condition # None

\* C8 as claimed: a tick with a frame in a state that defines if_condition
\* does nothing but evaluate the condition and execute the selected branch;
\* in particular it does not take the state's auto-transition.
C8_IfConditionFirst ==
    [][\A n \in 1..max_instances :
          /\ TickThreadStep(n)
          /\ tick[n].pc = "loop"
          /\ instances[n].running
          /\ HasIfCondition(currentState(n))
          => tick'[n].pc = "ifcond"]_vars

\* --- C9
\* C9 as claimed: once the stop flag is set on the engine and on every
\* instance, the tick loop and the watchdog loop of every instance exit.
C9_StopEndsLoops ==
    \A n \in 1..max_instances :
        (n \in Instances /\ ~engine.running)
            ~> (n \in Instances /\ tick[n].pc = "exited" /\ wd[n].pc = "stopped")

\* --- C10
\* The step is one of a thread, tick or watchdog, of instance a.
ThreadStep(a) ==
    /\ a \in Instances
    /\ DOMAIN instances' = DOMAIN instances
    /\ engine' = engine
    /\ tick'[a] # tick[a] \/ wd'[a] # wd[a]

\* C10 as claimed: a step of a thread of instance a leaves current_state,
\* current_action_index, cycle_count, session_count, detected_items and
\* account_id of every other running instance b as they are.
C10_NoCrossInstanceWrites ==
    [][\A a, b \in 1..max_instances :
          /\ a # b
          /\ ThreadStep(a)
          /\ b \in Instances
          /\ instances[a].running /\ instances[b].running
          => /\ currentState(b)' = currentState(b)
             /\ actionIndex(b)' = actionIndex(b)
             /\ cycleCount(b)' = cycleCount(b)
             /\ sessionCount(b)' = sessionCount(b)
             /\ detectedItems(b)' = detectedItems(b)
             /\ accountId(b)' = accountId(b)]_vars

\* --- C11
\* The template the Tap that instance n is executing looks up.
TapTemplateOf(n) ==
    ListOf(AutomationStates[tick[n].state], tick[n].kind)[tick[n].i + 1].template

\* C11 as claimed: the coordinates a Tap of instance n reads from the cache
\* are those its own detection stored, a point of a frame of its own device:
\* no other instance has cleared or overwritten the entry in between.
C11_TapReadsOwnDetection ==
    \A n \in Instances :
        tick[n].pc = "tap"
            => get_detected_coordinates(detected_coordinates, TapTemplateOf(n))
                   = instances[n].device_id

\* --- C12
\* The config of state s has no templates, no actions and no macros, and s is
\* not the terminal state: a skip state.
SkipState(s) ==
    /\ s \in DOMAIN AutomationStates
    /\ s # "completed"
    /\ Get(AutomationStates[s], "templates", <<>>) = <<>>
    /\ Get(AutomationStates[s], "actions", <<>>) = <<>>
    /\ Get(AutomationStates[s], "macros", <<>>) = <<>>
    /\ Get(AutomationStates[s], "next_states", <<>>) # <<>>

\* The tick thread of instance n is at the head of its loop and will enter it.
AtLoopHead(n) ==
    /\ ProcessAlive
    /\ n \in Instances
    /\ tick[n].pc = "loop"
    /\ instances[n].running

\* The tick of instance n moves it to state b and ends.
TickMovesTo(n, b) == TickBegin(n) /\ currentState(n)' = b /\ tick'[n].pc = "loop"

\* C12: in a skip state with next_states = [b, ...] the tick can move the
\* instance to b, and every step the tick takes there on a captured frame
\* ends the tick in b without entering an action list, a macro list or a
\* conditional and without touching the counters, the detected items or the
\* coordinate cache.
C12_SkipStateAutoTransition ==
    /\ [](\A n \in 1..max_instances :
             AtLoopHead(n) /\ SkipState(currentState(n))
                 => ENABLED TickMovesTo(n, AutomationStates[currentState(n)].next_states[1]))
    /\ [][\A n \in 1..max_instances :
             /\ AtLoopHead(n)
             /\ SkipState(currentState(n))
             /\ TickThreadStep(n)
             /\ tick'[n].pc # "exited"
             => /\ currentState(n)' = AutomationStates[currentState(n)].next_states[1]
                /\ tick'[n].pc = "loop"
                /\ cycleCount(n)' = cycleCount(n)
                /\ sessionCount(n)' = sessionCount(n)
                /\ heap' = heap
                /\ detected_coordinates' = detected_coordinates]_vars

\* The tick has just moved the instance out of the skip state 'finish'.
C12_Witness ==
    \E n \in Instances :
        /\ SkipState("finish")
        /\ currentState(n) = AutomationStates["finish"].next_states[1]
        /\ tick[n].pc = "loop"
        /\ instances[n].running
        /\ timeInState(n) = 0 /\ now > 0

\* --- C15
\* The tick of instance n is at the end of a list whose entries all
\* succeeded, in a state with non-empty next_states: its next step is the
\* transition.
ListCompleted(n) ==
    /\ n \in Instances
    /\ tick[n].pc = "list"
    /\ tick[n].i >= Len(ListOf(AutomationStates[tick[n].state], tick[n].kind))
    /\ Get(AutomationStates[tick[n].state], "next_states", <<>>) # <<>>

\* The target the claim names for state s with the given next_states.
ClaimedTarget(s, next_states, cycles_completed) ==
    IF s = "pulling_gacha" /\ Len(next_states) >= 2
    THEN IF cycles_completed < get_cycles_per_session
         THEN IF \E k \in DOMAIN next_states : next_states[k] = "pulling_gacha"
              THEN "pulling_gacha" ELSE next_states[2]
         ELSE IF next_states[1] # "pulling_gacha" THEN next_states[1] ELSE next_states[2]
    ELSE next_states[1]

\* C15 as claimed: the transition after a fully successful list lands in an
\* element of the next_states of the state the list belongs to: the first by
\* default, and for 'pulling_gacha' with two or more next states the
\* continue or advance target that the comparison of cycleCount with the
\* cycles per session selects.
C15_TransitionWithinNextStates ==
    [][\A n \in 1..max_instances :
          ListCompleted(n) /\ TickThreadStep(n)
          => LET next_states == AutomationStates[tick[n].state].next_states
             IN  /\ \E k \in DOMAIN next_states : currentState(n)' = next_states[k]
                 /\ currentState(n)' = ClaimedTarget(tick[n].state, next_states, cycleCount(n))]_vars

\* --- C17
\* C17: when the watchdog has fired in a state without timeout_state and
\* restart_app fails, the running flag of the instance is cleared, the
\* watchdog loop has ended for good, currentState, actionIndex, the counters,
\* the detected items and the account id are as before the recovery, and the
\* next loop check of the tick thread ends the tick loop without changing
\* the instance.
C17_FailedRestartStopsInstance ==
    [][\A n \in 1..max_instances :
          /\ WdRestartFails(n)
                => /\ wd'[n].pc = "stopped"
                   /\ ~instances'[n].running
                   /\ currentState(n)' = currentState(n)
                   /\ actionIndex(n)' = actionIndex(n)
                   /\ cycleCount(n)' = cycleCount(n)
                   /\ sessionCount(n)' = sessionCount(n)
                   /\ detectedItems(n)' = detectedItems(n)
                   /\ accountId(n)' = accountId(n)
          /\ n \in Instances /\ n \in DOMAIN wd' /\ wd[n].pc = "stopped"
                => wd'[n].pc = "stopped"
          /\ n \in Instances /\ tick[n].pc = "loop" /\ ~instances[n].running /\ TickThreadStep(n)
                => /\ tick'[n].pc = "exited"
                   /\ instances' = instances
                   /\ heap' = heap]_vars

\* A restart has failed in 'gate', a state without timeout_state, while the
\* operator had not stopped the engine: the instance is stopped where it was
\* and its tick loop has ended.
C17_Witness ==
    \E n \in Instances :
        /\ engine.running
        /\ wd[n].pc = "stopped"
        /\ ~instances[n].running
        /\ tick[n].pc = "exited"
        /\ currentState(n) = "gate"
        /\ DeclaredTimeoutState("gate") = None
        /\ actionIndex(n) = 1

\* --- C18
\* The tick loop of instance n has ended although its running flag is set:
\* it ended on an exception or on an unknown state.
TickLoopBroken(n) ==
    /\ n \in Instances
    /\ tick[n].pc = "exited"
    /\ instances[n].running

\* C18 as claimed: once the tick loop of an instance has ended on an
\* exception or an unknown state, its watchdog takes no further step: no
\* timeout is detected, the app is not restarted, and currentState,
\* actionIndex and the counters stay as they are.
C18_WatchdogStopsWithTickLoop ==
    [][\A n \in 1..max_instances :
          TickLoopBroken(n) /\ DOMAIN instances' = DOMAIN instances
          => /\ ~WatchdogStep(n) \/ ~instances'[n].running
             /\ currentState(n)' = currentState(n)
             /\ actionIndex(n)' = actionIndex(n)
             /\ cycleCount(n)' = cycleCount(n)
             /\ sessionCount(n)' = sessionCount(n)]_vars

\* --- C19
\* The current state of instance n is not a key of the state graph.
InUnknownState(n) == n \in Instances /\ currentState(n) \notin DOMAIN AutomationStates

\* The tick thread of instance n ends its loop.
TickExits(n) == TickBegin(n) /\ tick'[n].pc = "exited"

\* The tick thread of instance n starts on the list of its state.
TickEntersList(n) == TickBegin(n) /\ tick'[n].pc = "list"

\* C19: at the head of the loop in an unknown state the tick thread can end
\* its loop, and the only step it takes there does so without executing an
\* action and without touching its own instance, any other instance, the
\* other threads, the detected items, the coordinate cache or the webhook;
\* while it is in the unknown state every other instance whose tick thread
\* is at the head of its loop in a state with actions can go on with them.
C19_UnknownStateEndsOnlyThatLoop ==
    /\ [](\A n \in 1..max_instances :
             AtLoopHead(n) /\ InUnknownState(n) => ENABLED TickExits(n))
    /\ [](\A n, m \in 1..max_instances :
             /\ InUnknownState(n)
             /\ m # n /\ AtLoopHead(m) /\ ~InUnknownState(m)
             /\ Get(AutomationStates[currentState(m)], "actions", <<>>) # <<>>
             => ENABLED TickEntersList(m))
    /\ [][\A n \in 1..max_instances :
             AtLoopHead(n) /\ InUnknownState(n) /\ TickThreadStep(n)
             => /\ tick'[n].pc = "exited"
                /\ instances' = instances
                /\ heap' = heap
                /\ detected_coordinates' = detected_coordinates
                /\ webhook' = webhook
                /\ \A m \in Instances \ {n} : tick'[m] = tick[m]]_vars

\* The tick loop of one instance has ended in the unknown state 'ranking'
\* while the other instance is executing the Tap of 'lobby'.
C19_Witness ==
    \E n, m \in Instances :
        /\ InUnknownState(n)
        /\ tick[n].pc = "exited"
        /\ instances[n].running
        /\ m # n
        /\ instances[m].running
        /\ currentState(m) = "lobby"
        /\ tick[m].pc = "tap"

\* --- C16
\* The score of the items as the threshold policy counts it.
SessionScore(items) == 50 * Cardinality({k \in DOMAIN items : items[k] = "SSR"})
                           + 5 * Cardinality({k \in DOMAIN items : items[k] # "SSR"})

\* C16: a tick on a captured frame in 'completed' posts one notification for
\* the instance when the score of its detected items reaches the threshold
\* and none otherwise, and then, whatever the outcome of the post,
\* sessionCount has grown by 1, cycleCount is 0, detectedItems is empty,
\* accountId is unset, actionIndex is 0, currentState is the initial state
\* and the tick has ended.
C16_SessionFinalized ==
    [][\A n \in 1..max_instances :
          /\ AtLoopHead(n)
          /\ currentState(n) = "completed"
          /\ TickThreadStep(n)
          /\ tick'[n].pc # "exited"
          => /\ IF SessionScore(detectedItems(n)) >= 45
                THEN /\ Len(webhook') = Len(webhook) + 1
                     /\ SubSeq(webhook', 1, Len(webhook)) = webhook
                     /\ webhook'[Len(webhook')].instance_id = instances[n].instance_number
                     /\ webhook'[Len(webhook')].total_score = SessionScore(detectedItems(n))
                ELSE webhook' = webhook
             /\ sessionCount(n)' = sessionCount(n) + 1
             /\ cycleCount(n)' = 0
             /\ detectedItems(n)' = <<>>
             /\ accountId(n)' = None
             /\ actionIndex(n)' = 0
             /\ currentState(n)' = get_initial_state
             /\ tick'[n].pc = "loop"]_vars

\* A session that collected an item has been finalized although the post of
\* its notification was not delivered.
C16_Witness ==
    \E n \in Instances :
        /\ sessionCount(n) = 1
        /\ currentState(n) = get_initial_state
        /\ cycleCount(n) = 0 /\ detectedItems(n) = <<>> /\ accountId(n) = None
        /\ actionIndex(n) = 0
        /\ tick[n].pc = "loop"
        /\ Len(webhook) = 1
        /\ webhook[1].instance_id = instances[n].instance_number
        /\ ~webhook[1].delivered


\* ------------------------------------------------------------ C13
\* A Loop with a limit of n >= 1 iterations, no exit condition and no timeout.
LimitedLoop(c) ==
    /\ c # NoCall
    /\ c.action.type = "loop"
    /\ c.action.max_iterations # NoTimeout
    /\ c.action.max_iterations[1] >= 1
    /\ c.action.condition = None
    /\ c.action.timeout = NoTimeout

LoopEnded(c) == c.pc \in {"returned", "raised"}

TimedTap(c) ==
    /\ c # NoCall
    /\ c.action.type = "tap"
    /\ c.action.timeout # NoTimeout
    /\ validate_action_config(c.action)

TapElapsed == now - call.start_time

\* C14: a Tap with a timeout (a positive number, as the validation of action
\* configurations requires) whose template never matches issues no physical
\* tap and runs detection only on frames captured inside the retry loop,
\* never on the frame passed to execute_action or on a pinned frame; every
\* retry happens before the timeout has elapsed and begins with a new
\* capture; once the timeout has elapsed the next step of the Tap returns
\* success, and it returns no other way.
C14_TapRetriesFreshThenFailsOpen ==
    /\ [](TimedTap(call) /\ ~call.matched
          => /\ call.taps = 0
             /\ call.frame \in {"none", "captured"}
             /\ call.detections <= call.captures
             /\ call.captures = call.attempts
             /\ call.pc = "returned"
                => call.result /\ TapElapsed >= call.action.timeout[1])
    /\ [](TimedTap(call) /\ call.pc = "tap" /\ TapElapsed >= call.action.timeout[1]
          => ENABLED CallTap)
    /\ [][TimedTap(call) /\ CallTap /\ ~call'.matched
          => IF TapElapsed < call.action.timeout[1]
             THEN /\ call'.attempts = call.attempts + 1
                  /\ call'.captures = call.captures + 1
                  /\ call'.pc \in {"tap", "raised"}
                  /\ call'.detections # call.detections => call'.frame = "captured"
             ELSE call' = Return(call, TRUE)]_vars

\* A Tap with a timeout, called with a frame passed and a frame pinned, has
\* retried MaxAttempts times, run detection without a match, and returned
\* success after the timeout elapsed.
C14_Witness ==
    /\ TimedTap(call)
    /\ call.screenshot /\ call.pinned
    /\ call.attempts = MaxAttempts
    /\ call.detections >= 1
    /\ ~call.matched /\ call.taps = 0
    /\ call.pc = "returned" /\ call.result


\* ------------------------------------------------------------ C20
\* resume.json holds a whole document, as one finished save_state_to_file
\* wrote it.
CompleteSnapshot(file) ==
    /\ file # NoFile
    /\ load_state_from_file(file) = file
    /\ DOMAIN file = {"game_name", "instances"}

\* C20: the snapshot file is written atomically: wherever the process stops,
\* resume.json is absent (never written, or removed on completion) or holds
\* a complete snapshot, never an empty or partly written document.
C20_SnapshotNeverPartial ==
    engine.pc = "killed" => resume_file = NoFile \/ CompleteSnapshot(resume_file)

\* ------------------------------------------------------------ C21
RECURSIVE SessionSum(_)
\* The sum of the session counts of the first k instances.
SessionSum(k) ==
    IF k = 0 THEN 0 ELSE instances[k].instance_data.session_count + SessionSum(k - 1)

TargetReached == SessionSum(Len(instances)) >= Len(instances) * get_cycles_per_session

\* The control loop is at a point where its periodic operations run.
InControlLoop == engine.pc = "control" /\ \E i \in Instances : instances[i].running

\* C21: a completion check that runs while the sum of the instances' session
\* counts is at least (number of instances * per-device target) deletes
\* resume.json; one that runs while the sum is below the target leaves the
\* file as it is.
C21_CompletionCheckDeletesSnapshot ==
    /\ [](InControlLoop /\ TargetReached /\ resume_file # NoFile
          => ENABLED (EngineCheckCompletion /\ resume_file' = NoFile))
    /\ [][EngineCheckCompletion
          => IF TargetReached THEN resume_file' = NoFile
             ELSE resume_file' = resume_file]_vars
    /\ [](InControlLoop /\ ~TargetReached
          => ~ENABLED (EngineCheckCompletion /\ resume_file' # resume_file))

\* The completion check is about to run with a snapshot on disk and every
\* instance at its target.
C21_Witness ==
    /\ InControlLoop
    /\ TargetReached
    /\ CompleteSnapshot(resume_file)
    /\ \A i \in Instances : instances[i].instance_data.session_count = get_cycles_per_session
    /\ ENABLED (EngineCheckCompletion /\ resume_file' = NoFile)

\* ------------------------------------------------------------ C22
\* self._current_screenshot as it was when the call in call began.
ScreenshotAtCall == IF call.pinned THEN OriginalFrame ELSE NoFrame

SingleScreenshotLoop(c) ==
    c # NoCall /\ c.action.type = "loop" /\ c.action.use_single_screenshot

\* C22: when a Loop with use_single_screenshot has ended, by a return on
\* any path or by an exception of a body action, self._current_screenshot
\* has the value it had before the Loop started, absent if it was absent;
\* also for such a Loop run as a body action of another Loop, whose own
\* frame (or the value before it, if it pins none) is then back in place.
C22_PinnedFrameRestored ==
    /\ SingleScreenshotLoop(call) /\ Ended(call)
       => call.current_screenshot = ScreenshotAtCall
    /\ call # NoCall /\ call.action.type = "loop" /\ call.inner # NoCall
       /\ SingleScreenshotLoop(call.inner) /\ Ended(call.inner)
       => call.current_screenshot = IF call.action.use_single_screenshot
                                    THEN LoopFrame(1) ELSE ScreenshotAtCall

\* A single-screenshot Loop called with no frame pinned, whose body is a
\* single-screenshot Loop, has run a whole pass and returned.
C22_Witness ==
    /\ SingleScreenshotLoop(call)
    /\ ~call.pinned
    /\ call.action.actions = <<InnerLoop>>
    /\ call.pc = "returned" /\ call.result
    /\ call.passes >= 1
    /\ call.current_screenshot = NoFrame

\* ------------------------------------------------------------ C29
\* C29: in a Loop with use_single_screenshot exactly one frame is captured
\* per iteration, and a Tap of the body, with or without a timeout, captures
\* no frame of its own and runs its detections on the frame of the
\* iteration.
C29_BodyUsesIterationFrame ==
    SingleScreenshotLoop(call)
    => /\ call.pc = "loop_body" => call.captures = call.iteration + 1
       /\ call.inner # NoCall /\ call.inner.action.type = "tap"
          => /\ call.inner.captures = 0
             /\ call.inner.frame \in {"none", "passed"}

\* ------------------------------------------------------------ C23
\* What an instance owns: current state, action index, session and cycle
\* counters, the detected items, the account id and the running flag.
InstanceView(n) ==
    <<currentState(n), actionIndex(n), sessionCount(n), cycleCount(n),
      detectedItems(n), accountId(n), instances[n].running>>

\* The step is one of the engine's periodic operations.
PeriodicOperation == EngineWriteStatus \/ EngineSaveState \/ EngineCheckCompletion

\* C23: the periodic operations of the engine (status report, snapshot save,
\* completion check) can run whenever the control loop runs, and leave every
\* instance's current state, action index, session count, cycle count,
\* detected items, account id and running flag as they were.
C23_PeriodicOperationsReadOnly ==
    /\ [](InControlLoop
          => ENABLED EngineWriteStatus /\ ENABLED EngineSaveState
             /\ ENABLED EngineCheckCompletion)
    /\ [][PeriodicOperation
          => /\ DOMAIN instances' = DOMAIN instances
             /\ \A n \in Instances : InstanceView(n)' = InstanceView(n)]_vars

\* The periodic operations are about to run, after an earlier save, on
\* instances of which one holds a detected item and another has finished a
\* session.
C23_Witness ==
    /\ InControlLoop
    /\ CompleteSnapshot(resume_file)
    /\ \E n, m \in Instances :
         /\ n # m
         /\ detectedItems(n) # <<>>
         /\ sessionCount(m) >= 1
    /\ ENABLED EngineSaveState

\* ------------------------------------------------------------ C24
\* The action list of state s holds a Conditional that names a target state:
\* the tick loop itself can change the state while inside the list.
JumpsByItself(s) ==
    \E k \in DOMAIN AutomationStates[s].actions :
       LET a == AutomationStates[s].actions[k]
       IN  /\ a.type = "conditional"
           /\ a.if_true_state # None \/ a.if_false_state # None

\* The tick of instance n is inside the action list of the state it began
\* in, a list that changes no state itself, and the instance is in another
\* state: the watchdog has moved it meanwhile.
RecoveredMidList(n) ==
    /\ n \in Instances
    /\ tick[n].pc \in {"list", "tap", "cond", "ifcond"}
    /\ ~JumpsByItself(tick[n].state)
    /\ currentState(n) # tick[n].state

\* C24: a watchdog recovery is not lost to the tick loop: once the watchdog
\* has changed the current state while the tick loop is inside the old
\* state's action list, no step of the tick loop sets the action index to a
\* non-zero position or moves the instance out of the recovery target.
C24_RecoveryNotLost ==
    [][\A n \in 1..max_instances :
          RecoveredMidList(n) /\ TickThreadStep(n)
          => /\ actionIndex(n)' = 0
             /\ currentState(n)' = currentState(n)]_vars

\* ------------------------------------------------------------ C25
\* The watchdog of instance n has detected a timeout and not yet handled it,
\* and the state the instance is in now has not timed out: the tick loop has
\* entered it since the check.
DetectedTimeoutIsStale(n) ==
    /\ n \in Instances
    /\ wd[n].pc = "handle"
    /\ ~check_state_timeout(instances[n], now)

\* C25: the watchdog applies a recovery only to the state whose timeout it
\* detected: when the tick loop has changed the current state between the
\* timeout check and the recovery step, that step neither jumps out of the
\* freshly entered state nor goes on to restart the app.
C25_RecoveryOnlyForDetectedState ==
    [][\A n \in 1..max_instances :
          DetectedTimeoutIsStale(n) /\ WatchdogStep(n)
          => /\ instances'[n] = instances[n]
             /\ wd'[n].pc # "restart"]_vars

\* ------------------------------------------------------------ C26
\* The list the tick loop runs in state s: its actions or, when it has none,
\* its legacy macros; empty for a state outside the graph.
ListOfState(s) ==
    IF s \notin DOMAIN AutomationStates THEN <<>>
    ELSE IF Get(AutomationStates[s], "actions", <<>>) # <<>>
    THEN AutomationStates[s].actions
    ELSE Get(AutomationStates[s], "macros", <<>>)

\* C26: at the start of every tick the action index lies in
\* 0..len(list of the current state), and a tick never enters a non-empty
\* list at or beyond its end, from where it would take the state's
\* next_states transition without having executed an entry.
C26_IndexWithinList ==
    /\ [](\A n \in Instances :
            tick[n].pc = "loop" /\ instances[n].running
            => actionIndex(n) \in 0..Len(ListOfState(currentState(n))))
    /\ [][\A n \in 1..max_instances :
            TickThreadStep(n) /\ tick[n].pc = "loop" /\ tick'[n].pc = "list"
            => tick'[n].i < Len(ListOfState(tick'[n].state))]_vars

\* ------------------------------------------------------------ C27
\* The Conditional call has returned and the branch it selected, if it got
\* to select one, names no target state.
ReturnedWithoutTarget ==
    /\ call # NoCall
    /\ call.action.type = "conditional"
    /\ call.pc = "returned"
    /\ call.target_state = None

\* Some action of the selected branch succeeded.
SomeBranchActionSucceeded ==
    \E k \in 1..Len(call.outcomes) : call.outcomes[k] = "succeeded"

\* C27: a Conditional whose selected branch names no target state returns
\* success exactly when a frame was there for the condition check and the
\* selected branch is empty or at least one of its actions succeeded; so it
\* returns failure when the branch is non-empty and none of its actions
\* succeeded, and when no frame could be captured for the check.
C27_ConditionalResult ==
    ReturnedWithoutTarget
    => /\ call.result = (/\ call.checked
                         /\ \/ Len(call.actions_to_execute) = 0
                            \/ SomeBranchActionSucceeded)
       /\ ~call.checked => call.frame = "none" /\ ~call.result

\* A Conditional of two branch actions has returned success though its
\* second action ran out of retries.
C27_Witness ==
    /\ ReturnedWithoutTarget
    /\ call.checked
    /\ call.outcomes = <<"succeeded", "exhausted">>
    /\ call.result

\* ------------------------------------------------------------ C28
ConditionalCall == call # NoCall /\ call.action.type = "conditional"

\* C28: every execution of a Conditional eventually leaves the call, and no
\* branch action is attempted once the overall timeout has elapsed.
C28_ConditionalReturns ==
    /\ [](ConditionalCall => <>Ended(call))
    /\ [][ConditionalCall /\ CallCondAttempt => ~OverallTimedOut(call)]_vars

\* ------------------------------------------------------------ C30
WaitForTemplate ==
    call # NoCall /\ call.action.type = "wait" /\ call.action.condition # None

\* C30: every poll of a Wait with a condition template looks at a newly
\* captured frame, also when a frame was passed to the call; the Wait
\* returns success only on a detection in a captured frame and failure only
\* when its timeout (60 s by default) has elapsed.
C30_WaitPollsFreshFrames ==
    /\ [][WaitForTemplate /\ CallWait /\ call.elapsed < WaitTimeout(call.action)
            => call'.frame \in {"captured", "none"}]_vars
    /\ [](WaitForTemplate /\ call.pc = "returned"
            => IF call.result THEN call.frame = "captured"
               ELSE call.elapsed >= WaitTimeout(call.action))

\* ------------------------------------------------------------ C31
\* The call is a Loop with an exit condition.
ConditionLoop(c) == c # NoCall /\ c.action.type = "loop" /\ c.action.condition # None

\* The step is the head of a pass of the Loop called (not of a Loop of its
\* body).
OuterLoopHead == CallLoopHead /\ ~InBody

\* C31: the exit condition of a Loop is looked for at the head of every
\* iteration for which a frame is there; an iteration whose check detected
\* the template executes nothing of the body: the Loop ends in that step and
\* returns success with as many body executions as completed iterations
\* (none when the detection is in the first check), and the body runs only
\* in iterations whose check detected nothing.
C31_ExitConditionCheckedFirst ==
    /\ [][ConditionLoop(call) /\ OuterLoopHead /\ call'.exit_condition_met
            => /\ call'.pc = "returned" /\ call'.result
               /\ call'.passes = call.passes
               /\ call'.passes = call'.iteration
               /\ call'.inner = NoCall]_vars
    /\ [](ConditionLoop(call) /\ call.pc = "loop_body" => ~call.exit_condition_met)
    /\ [](ConditionLoop(call) /\ call.exit_condition_met
            => call.pc = "returned" /\ call.result)

\* A Loop has ended on its exit condition after one full iteration of a
\* body of two actions.
C31_Witness ==
    /\ ConditionLoop(call)
    /\ call.exit_condition_met
    /\ call.pc = "returned" /\ call.result
    /\ call.passes = 1 /\ call.iteration = 1
    /\ Len(call.action.actions) = 2

\* ------------------------------------------------------------ C32
\* The call is that of a Loop entry of an action list.
LoopEntry == call # NoCall /\ call.action.type = "loop"

\* C32: when a body action of a Loop returns failure, the Loop returns
\* failure in that step, with nothing more of the body and no further
\* iteration executed, and takes no step afterwards; the list loop then
\* leaves actionIndex at the position of the Loop, and the call the next
\* tick makes for that entry starts the Loop at its first iteration.
C32_LoopStopsOnBodyFailure ==
    /\ [][LoopEntry /\ ~call.body_failed /\ call'.body_failed /\ call'.pc # "raised"
            => /\ call'.pc = "returned" /\ ~call'.result
               /\ call'.passes = call.passes
               /\ call'.k = call.k
               /\ call'.iteration = call.iteration]_vars
    /\ [](LoopEntry /\ call.body_failed
            => ~ENABLED (CallLoopHead \/ CallLoopBody \/ CallTap))
    /\ [][LoopEntry /\ ListEntryReturns /\ ~call.result
            => /\ call'.current_action_index = call.entry
               /\ call.ticks < MaxTicks
                  => /\ call'.action = call.action
                     /\ call'.pc = "loop_head"
                     /\ call'.iteration = 0 /\ call'.passes = 0 /\ call'.k = 0]_vars
    /\ [](LoopEntry /\ call.current_action_index # call.entry
            => call.done /\ call.result /\ call.current_action_index = call.entry + 1)

\* The Loop at the second position of the list, whose call of the tick
\* before ended on a failed body action, is in its first iteration again,
\* actionIndex at its position.
C32_Witness ==
    /\ LoopEntry
    /\ call.entry = 1 /\ call.current_action_index = 1
    /\ call.ticks = 2 /\ call.body_failed_before
    /\ Len(call.action.actions) = 2
    /\ call.pc = "loop_body" /\ call.iteration = 0 /\ call.k = 1

\* ------------------------------------------------------------ C33
\* State s of the graph lists templates.
HasTemplates(s) ==
    s \in DOMAIN AutomationStates /\ Get(AutomationStates[s], "templates", <<>>) # <<>>

\* State s of the graph lists no templates but actions or macros, and is not
\* the terminal state of a session.
PureActionState(s) ==
    /\ s \in DOMAIN AutomationStates
    /\ s # "completed"
    /\ Get(AutomationStates[s], "templates", <<>>) = <<>>
    /\ ListOfState(s) # <<>>

\* The tick of instance n is executing entries of a list or of a branch.
Executing(n) == tick[n].pc \in {"list", "tap", "cond", "ifcond"}

\* The tick thread of instance n makes the first step of a tick.
TickStarts(n) == TickThreadStep(n) /\ tick[n].pc = "loop" /\ instances[n].running

\* C33: in a state with templates a tick executes actions or macros only
\* when a template matched its frame, and a tick in which none matched
\* leaves currentState, actionIndex, the counters and the collected items
\* as they were; in a state without templates but with a non-empty action or
\* macro list a tick that has a frame enters the list at actionIndex, and
\* such a tick is always possible.
C33_TemplatesGateTheList ==
    /\ [](\A n \in Instances :
            Executing(n) /\ HasTemplates(tick[n].state) => tick[n].template_detected)
    /\ [][\A n \in 1..max_instances :
            TickStarts(n) /\ HasTemplates(currentState(n)) /\ ~tick'[n].template_detected
            => /\ instances'[n] = instances[n]
               /\ heap' = heap /\ webhook' = webhook
               /\ ~Executing(n)']_vars
    /\ [][\A n \in 1..max_instances :
            TickStarts(n) /\ PureActionState(currentState(n))
            => \/ /\ Executing(n)'
                  /\ tick'[n].state = currentState(n)
                  /\ tick'[n].i = actionIndex(n)
                  /\ instances'[n] = instances[n]
               \/ /\ tick'[n].pc = "exited"
                  /\ instances'[n] = instances[n]]_vars
    /\ [](\A n \in Instances :
            tick[n].pc = "loop" /\ instances[n].running /\ PureActionState(currentState(n))
            /\ engine.pc = "control"
            => ENABLED (TickBegin(n) /\ tick'[n].pc \in {"list", "ifcond"}))

\* A tick in state 'gate', which lists a template and macros, found no match
\* in its frame.
C33_Witness ==
    \E n \in Instances :
        /\ currentState(n) = "gate"
        /\ tick[n].pc = "loop" /\ tick[n].skipped
        /\ instances[n].running

\* ------------------------------------------------------------ C34
\* The engine starts after a graceful stop, with a snapshot to resume from.
ResumesAfterStop ==
    /\ engine.pc = "created"
    /\ engine.after_stop
    /\ can_resume(resume_file, game_name)

\* C34: when the engine is started again after a graceful stop and resumes
\* from the final snapshot of that run, every instance it creates is
\* running, so the control loop does not find all instances stopped at its
\* first pass.
C34_ResumedInstancesRun ==
    [][ResumesAfterStop /\ EngineStart
         => /\ \A i \in DOMAIN instances' : instances'[i].running
            /\ ~(ENABLED EngineAllStopped)']_vars

\* ------------------------------------------------------------ C35
\* The tick thread of every instance has exited.
AllTickThreadsExited ==
    Instances # {} /\ \A n \in Instances : tick[n].pc = "exited"

\* C35: an instance whose tick thread has exited has its running flag
\* false, and once the tick threads of all instances have exited the control
\* loop can leave its loop for lack of a running instance.
C35_ExitedThreadNotRunning ==
    /\ \A n \in Instances : tick[n].pc = "exited" => ~instances[n].running
    /\ AllTickThreadsExited /\ engine.pc = "control" => ENABLED EngineAllStopped

\* ------------------------------------------------------------ C36
\* C36: in a run whose completion check has found the target reached and
\* deleted the snapshot, the snapshot file does not exist from then on, in
\* the control loop, in the final steps of start() and when the engine has
\* exited.
C36_DeletedSnapshotStaysDeleted ==
    engine.cleaned /\ engine.pc \in {"control", "finalize", "exited"}
    => resume_file = NoFile

\* ------------------------------------------------------------ C37
\* The step is the session finalization of instance n: its tick thread, at
\* the head of a tick in state 'completed', resets the instance for the next
\* session.
SessionFinalized(n) ==
    /\ TickThreadStep(n)
    /\ tick[n].pc = "loop"
    /\ currentState(n) = "completed"
    /\ currentState(n)' = get_initial_state
    /\ cycleCount(n)' = 0
    /\ actionIndex(n)' = 0

\* C37: during a run the session count of an instance changes only in a
\* session finalization, and then by +1; every other step (watchdog jump to
\* a timeout_state, reset after an app restart, state jump of a Conditional,
\* transition, stop) leaves it as it is.
C37_SessionCountOnlyGrows ==
    [][\A n \in 1..max_instances :
          n \in Instances /\ DOMAIN instances' = DOMAIN instances
          => \/ sessionCount(n)' = sessionCount(n)
             \/ /\ sessionCount(n)' = sessionCount(n) + 1
                /\ SessionFinalized(n)]_vars

\* An instance that has finalized one session has been reset by the
\* watchdog after an app restart, while its tick was in the macro list of
\* 'gate' (a state without timeout_state), its session count kept.
C37_Witness ==
    \E n \in Instances :
        /\ sessionCount(n) = 1
        /\ wd[n].pc = "check"
        /\ tick[n].pc = "list" /\ tick[n].state = "gate"
        /\ currentState(n) = get_initial_state
        /\ instances[n].running

\* ------------------------------------------------------------ C38
\* The call is for one of the action configurations with a missing or
\* unknown type, a missing required field or a Tap timeout of 0.
InvalidCall == call # NoCall /\ call.action \in InvalidActions

\* C38: execute_action on an action configuration that fails the validation
\* returns False in its first step, without raising, without a frame
\* capture, a detection or a tap, and does nothing afterwards.
C38_InvalidActionReturnsFalse ==
    /\ [][InvalidCall /\ CallEntry
            => /\ call'.pc = "returned" /\ ~call'.result
               /\ call'.captures = 0 /\ call'.detections = 0 /\ call'.taps = 0]_vars
    /\ [](InvalidCall /\ call.pc = "entry" => ENABLED CallEntry)
    /\ [](InvalidCall /\ call.pc # "entry"
            => /\ call.pc = "returned" /\ ~call.result
               /\ call.captures = 0 /\ call.detections = 0 /\ call.taps = 0
               /\ ~ENABLED (CallLoopHead \/ CallLoopBody \/ CallTap \/ CallSwipe \/ CallEntry))

\* The call for a Loop without its 'actions' field has returned False, a
\* frame having been passed.
C38_Witness ==
    /\ InvalidCall
    /\ call.action = [type |-> "loop", max_iterations |-> <<1>>]
    /\ call.screenshot
    /\ call.pc = "returned" /\ ~call.result

\* ------------------------------------------------------------ C39
\* The call of a Swipe that passed the validation has returned.
SwipeReturned ==
    call # NoCall /\ call.action \in SwipeActions /\ call.pc = "returned"

\* The end of the Swipe is given as a template, without explicit coordinates.
TemplateOnly(a, template, coordinates) ==
    template \in DOMAIN a /\ coordinates \notin DOMAIN a

\* C39: a Swipe that has returned issued exactly one drag command, from the
\* centre of its start template when the start is given as a template only,
\* and to the centre of its end template when the end is given as a
\* template only.
C39_SwipeDragsBetweenMatchedCentres ==
    SwipeReturned
        => /\ Len(call.drags) = 1
           /\ TemplateOnly(call.action, "start_template", "start_coordinates")
                => call.drags[1][1] = call.centre
           /\ TemplateOnly(call.action, "end_template", "end_coordinates")
                => call.drags[1][2] = call.centre

\* ------------------------------------------------------------ C40
\* A Loop with a limit of n >= 0 iterations and at least one body action.
CountedLoop(c) ==
    /\ c # NoCall
    /\ c.action.type = "loop"
    /\ c.action.max_iterations # NoTimeout
    /\ c.action.actions # <<>>

\* C40: a Loop with max_iterations = n, for any n >= 0, has executed its
\* body at most n times; with n = 0 it has not executed it.
C40_LoopBodyAtMostNTimes ==
    CountedLoop(call) => call.passes <= call.action.max_iterations[1]

====
